---- MODULE Spec2Model ----
(***************************************************************************)
(* ppg-hub: the update-semantics and error-taxonomy layer of the REST      *)
(* backend (FastAPI routes -> services -> SQLAlchemy repositories).        *)
(*                                                                         *)
(* Tables are functions from row id to row record.  Column values are      *)
(* strings ("NULL" is SQL NULL / JSON null, "T"/"F" are booleans), ids and *)
(* timestamps are naturals.  A request payload is a function from the      *)
(* names of the fields PRESENT in the JSON body to their values, so that   *)
(* "absent" and "present with null" are different payloads.                *)
(*                                                                         *)
(* One action is one whole request: dependency set-up, the handler with    *)
(* the service and repository calls it makes, the dependency tear-down and *)
(* the exception handler that builds the response.                         *)
(***************************************************************************)
EXTENDS Integers, Sequences, FiniteSets, TLC

\* ----------------------------------------------------------------- bounds
\* The clock stops here: at most MaxTime - 1 requests in one behaviour.
MaxTime == 4

\* ----------------------------------------------------------------- values
NULL == "NULL"
\* Role.atualizado_em is nullable and has no default: NULL until an UPDATE.
NullTs == 0
Names == {"a", "b"}
\* Row ids a request may address: one per request that could have created it.
Ids == 1..(MaxTime - 1)

VARIABLES
    roles,          \* auth.roles: committed rows
    roleSeq,        \* last id issued for auth.roles
    instituicoes,   \* instituicoes: committed rows
    programas,      \* core.programas: committed rows
    progSeq,        \* last id issued for core.programas
    usuarios,       \* auth.usuarios: committed rows
    usuarioSeq,     \* last id issued for auth.usuarios
    now,            \* the store's clock (func.now())
    last,           \* the request just handled
    resp,           \* the response to it
    calls,          \* the Session calls the request made, in order
    conc,           \* two requests in flight at once: each one's position
    raised,         \* the request and the exception that left its route
    DEBUG,          \* the debug flag read from PPGHUB_DEBUG at start-up
    docentes,       \* academic.docentes: committed rows
    docenteSeq,     \* last id issued for academic.docentes
    vinculos        \* auth.usuario_programa_roles: committed rows

roleVars == <<roles, roleSeq>>
instVars == <<instituicoes>>
progVars == <<programas, progSeq>>
userVars == <<usuarios, usuarioSeq>>
docVars == <<docentes, docenteSeq>>
linkVars == <<vinculos>>
vars == <<roleVars, instVars, progVars, userVars, docVars, linkVars, now, last, resp, calls,
          conc, raised, DEBUG>>

\* What a request on one table leaves alone.
NotRole == <<instVars, progVars, userVars, docVars, linkVars, conc, raised, DEBUG>>
NotInst == <<roleVars, progVars, userVars, docVars, linkVars, conc, raised, DEBUG>>
NotProg == <<roleVars, instVars, userVars, docVars, linkVars, conc, raised, DEBUG>>
NotUser == <<roleVars, instVars, progVars, docVars, linkVars, conc, raised, DEBUG>>

\* ------------------------------------------------------------- generic store
Put(tbl, r) == [i \in (DOMAIN tbl) \cup {r.id} |-> IF i = r.id THEN r ELSE tbl[i]]
Remove(tbl, id) == [i \in (DOMAIN tbl) \ {id} |-> tbl[i]]

\* All payloads over a set of fields: every subset of the fields present,
\* each present field holding one of its values.
Payloads(full) ==
    UNION { { [k \in S |-> f[k]] : f \in full } : S \in SUBSET (DOMAIN (CHOOSE f \in full : TRUE)) }

\* Faulty variant of the setattr loop: a field absent from the payload is
\* reset (descricao to NULL) instead of being kept.
SetAttrsWipe(obj, data) ==
    [k \in DOMAIN obj |-> IF k \in DOMAIN data THEN data[k]
                           ELSE IF k = "descricao" THEN NULL ELSE obj[k]]

\* Faulty variant of the setattr loop: writing the value a field already
\* holds replaces it by another one.
SetAttrsToggle(obj, data) ==
    [k \in DOMAIN obj |-> IF k \notin DOMAIN data THEN obj[k]
                           ELSE IF k = "nome_completo" /\ obj[k] = data[k] THEN "z"
                           ELSE data[k]]

\* The setattr loop of the repositories: for k, v in data.items():
\* if hasattr(obj, k): setattr(obj, k, v)
SetAttrs(obj, data) ==
    [k \in DOMAIN obj |-> IF k \in DOMAIN data THEN data[k] ELSE obj[k]]

\* ---------------------------------------------------------------- responses
NoBody == [id |-> 0]

\* Faulty variant of the title lookup: the fallback title for every status.
_status_title_flat(code) == "HTTP Error"
_status_title(code) ==
    CASE code = 400 -> "Bad Request"
      [] code = 404 -> "Not Found"
      [] code = 409 -> "Conflict"
      [] code = 422 -> "Unprocessable Entity"
      [] code = 500 -> "Internal Server Error"
      [] OTHER -> "HTTP Error"

\* None where a dict is expected.
NoDict == [none |-> TRUE]

\* The request as the handlers read it: method, url, x-request-id header.
Request(method, url, request_id) ==
    [method |-> method, url |-> url, request_id |-> request_id]

\* The exceptions that leave a route.
HTTPException(status_code, detail) ==
    [class |-> "HTTPException", status_code |-> status_code, detail |-> detail]
\* errors: what exc.errors() returns, one item per failure.
RequestValidationError(errors) ==
    [class |-> "RequestValidationError", errors |-> errors]
\* orig: the driver's exception, with its pgcode and its message.
IntegrityError(pgcode, msg) ==
    [class |-> "IntegrityError", orig |-> [pgcode |-> pgcode, msg |-> msg]]
OtherException(class, text) == [class |-> class, text |-> text]

\* Faulty variant of the factory: a meta given by the handler replaces the
\* one that carries the method.
build_problem_meta_replaced(request, status_code, title, detail, type_url, errors, meta) ==
    [type     |-> IF type_url = NULL THEN "about:blank" ELSE type_url,
     title    |-> IF title = NULL THEN _status_title(status_code) ELSE title,
     status   |-> status_code,
     detail   |-> detail,
     instance |-> request.url,
     errors   |-> errors,
     meta     |-> IF meta = NoDict THEN [method |-> request.method] ELSE meta]

\* build_problem: type and title fall back on about:blank and the status
\* title; instance is the url; meta always carries the method.
build_problem(request, status_code, title, detail, type_url, errors, meta) ==
    [type     |-> IF type_url = NULL THEN "about:blank" ELSE type_url,
     title    |-> IF title = NULL THEN _status_title(status_code) ELSE title,
     status   |-> status_code,
     detail   |-> detail,
     instance |-> request.url,
     errors   |-> errors,
     meta     |-> (IF meta = NoDict THEN << >> ELSE meta) @@ [method |-> request.method]]

\* _problem_response: the payload without its None members, as
\* application/problem+json under the payload's status.
_problem_response(pd) ==
    LET none == {k \in {"detail"} : pd.detail = NULL}
                \cup {k \in {"errors"} : pd.errors = NoDict}
    IN [status_code |-> pd.status,
        media_type |-> "application/problem+json",
        content |-> [k \in DOMAIN pd \ none |-> pd[k]]]

http_exception_handler(request, exc) ==
    _problem_response(
        build_problem(request, exc.status_code, NULL, exc.detail, NULL, NoDict, NoDict))

\* Faulty variant of the handler: only the first error is listed.
validation_exception_handler_first(request, exc) ==
    LET items == [i \in 1..(IF Len(exc.errors) > 0 THEN 1 ELSE 0) |->
                     [loc |-> exc.errors[i].loc, msg |-> exc.errors[i].msg,
                      type |-> exc.errors[i].type]]
    IN _problem_response(
        build_problem(request, 422, "Unprocessable Entity",
                      "Erros de validação no corpo/parâmetros.",
                      "urn:ppghub:errors:validation", [items |-> items], NoDict))

\* items keeps loc, msg and type of every error and drops the rest.
validation_exception_handler(request, exc) ==
    LET items == [i \in 1..Len(exc.errors) |->
                     [loc |-> exc.errors[i].loc, msg |-> exc.errors[i].msg,
                      type |-> exc.errors[i].type]]
    IN _problem_response(
        build_problem(request, 422, "Unprocessable Entity",
                      "Erros de validação no corpo/parâmetros.",
                      "urn:ppghub:errors:validation", [items |-> items], NoDict))

\* A message is the sequence of its pieces; Words are the pieces \w+ matches.
Words == {"codigo", "sigla", "nome", "instituicao_id"}
\* Faulty variant of the extraction: a hint for every message, cut out of
\* its first and last pieces.
_UNIQUE_any(msg) == [field |-> msg[1], value |-> msg[Len(msg)]]
\* _UNIQUE.search(msg): Key (<field>)=(<value>) already exists, where field
\* is one word and value is not empty; the first match counts.
_UNIQUE(msg) ==
    LET at == {i \in 1..Len(msg) :
                  /\ i + 4 <= Len(msg)
                  /\ msg[i] = "Key ("
                  /\ msg[i + 1] \in Words
                  /\ msg[i + 2] = ")=("
                  /\ msg[i + 3] # ""
                  /\ msg[i + 4] = ") already exists"}
    IN IF at = {} THEN NoDict
       ELSE LET i == CHOOSE i \in at : \A j \in at : i <= j
            IN [field |-> msg[i + 1], value |-> msg[i + 3]]

integrity_error_handler(request, exc) ==
    LET pgcode == exc.orig.pgcode
        msg == exc.orig.msg
        hint == _UNIQUE(msg)
    IN _problem_response(
        build_problem(request, 409, "Conflict",
                      "Conflito com restrições do banco de dados.",
                      "urn:ppghub:errors:conflict",
                      [db_code |-> pgcode, hint |-> hint], NoDict))

\* Faulty variant of the handler: the exception's own text whatever the flag.
unhandled_exception_handler_leaky(request, exc) ==
    _problem_response(
        build_problem(request, 500, "Internal Server Error", exc.text,
                      "urn:ppghub:errors:internal", NoDict,
                      [request_id |-> request.request_id]))

unhandled_exception_handler(request, exc) ==
    LET detail == IF DEBUG THEN exc.text ELSE "Ocorreu um erro interno no servidor."
    IN _problem_response(
        build_problem(request, 500, "Internal Server Error", detail,
                      "urn:ppghub:errors:internal", NoDict,
                      [request_id |-> request.request_id]))

\* Faulty variant of the application: no handler registered for IntegrityError.
ExceptionHandlersNoIntegrity(request, exc) ==
    CASE exc.class = "HTTPException" -> http_exception_handler(request, exc)
      [] exc.class = "RequestValidationError" -> validation_exception_handler(request, exc)
      [] OTHER -> unhandled_exception_handler(request, exc)

\* app.add_exception_handler(...): the handler registered for the class of
\* the exception that left the route; anything unregistered is an Exception.
ExceptionHandlers(request, exc) ==
    CASE exc.class = "HTTPException" -> http_exception_handler(request, exc)
      [] exc.class = "RequestValidationError" -> validation_exception_handler(request, exc)
      [] exc.class = "IntegrityError" -> integrity_error_handler(request, exc)
      [] OTHER -> unhandled_exception_handler(request, exc)

Success(status_code, body) ==
    [status |-> status_code, type |-> "ok", title |-> "ok", body |-> body]

\* What the entity routes keep of a problem response: status, type, title.
Dispatch(exc, status_code) ==
    LET request == Request("GET", "/", NULL)
        thrown == CASE exc = "HTTPException" -> HTTPException(status_code, "detail")
                    [] exc = "RequestValidationError" -> RequestValidationError(<< >>)
                    [] exc = "IntegrityError" -> IntegrityError("23505", << >>)
                    [] OTHER -> OtherException(exc, "")
        response == ExceptionHandlers(request, thrown)
    IN [status |-> response.status_code, type |-> response.content.type,
        title |-> response.content.title, body |-> NoBody]

\* What a repository or service call hands back: the exception it raised
\* ("none" when it returned), the committed table and sequence after it, the
\* object it returned, and the Session calls it made.
Outcome(exc, tbl, seq, ret, cs) ==
    [exc |-> exc, tbl |-> tbl, seq |-> seq, ret |-> ret, calls |-> cs]

\* Faulty variant of the dependency: it commits whether or not the route raised.
get_session_commit_always(cs, failed) == cs \o <<"commit", "close">>
\* app/db/session.py get_session: commit when the route returned, rollback
\* when it raised, close in both cases.
get_session(cs, failed) ==
    cs \o (IF failed THEN <<"rollback", "close">> ELSE <<"commit", "close">>)
\* app/deps.py get_db: close only.
get_db(cs) == cs \o <<"close">>

\* app/deps.py: get_session = get_db, the name main.py imports.
deps_get_session(cs) == get_db(cs)

\* The request being handled; again: it repeats the request handled just before.
Req(op, id, payload) ==
    [op |-> op, id |-> id, payload |-> payload,
     again |-> (last.op = op /\ last.id = id /\ last.payload = payload)]
NoPayload == << >>
\* Every request takes one tick of the store's clock.
Tick == now < MaxTime /\ now' = now + 1

\* ------------------------------------------------------------------- roles
RolePayloads ==
    Payloads([nome : Names \cup {NULL}, descricao : {"d", NULL}, ativo : {"T", "F", NULL}])

\* Role.nome: nullable=False; Role.ativo: nullable=False.
RoleNotNullOK(r) == r.nome # NULL /\ r.ativo # NULL
\* Faulty variant of the store: no unique index on nome.
RoleUniqueOff(tbl, r) == TRUE
\* Role.nome: unique=True.
RoleUniqueOK(tbl, r) == \A i \in DOMAIN tbl : i # r.id => tbl[i].nome # r.nome
RoleConstraintsOK(tbl, r) == RoleNotNullOK(r) /\ RoleUniqueOK(tbl, r)

\* RoleCreate: nome is required and a str; ativo is a bool when given.
RoleCreateValid(p) ==
    /\ "nome" \in DOMAIN p /\ p["nome"] # NULL
    /\ "ativo" \in DOMAIN p => p["ativo"] # NULL
\* payload.model_dump(): every field of RoleBase, defaults filled in.
RoleCreateDump(p) ==
    [nome |-> p["nome"],
     descricao |-> IF "descricao" \in DOMAIN p THEN p["descricao"] ELSE NULL,
     ativo |-> IF "ativo" \in DOMAIN p THEN p["ativo"] ELSE "T"]
\* RoleOut.model_validate(role)
RoleOut(r) == [id |-> r.id, nome |-> r.nome, descricao |-> r.descricao, ativo |-> r.ativo]

\* RoleRepository.create: Role(**data); add; commit; refresh.
\* The INSERT takes the next id of the sequence whether or not it succeeds.
RoleRepository_create(data) ==
    LET role == [id |-> roleSeq + 1, nome |-> data.nome, descricao |-> data.descricao,
                 ativo |-> data.ativo, atualizado_em |-> NullTs]
    IN IF RoleConstraintsOK(roles, role)
       THEN Outcome("none", Put(roles, role), roleSeq + 1, role, <<"add", "commit", "refresh">>)
       ELSE Outcome("IntegrityError", roles, roleSeq + 1, NoBody, <<"add", "commit">>)

\* RoleRepository.get_by_id
RoleRepository_get_by_id(id) ==
    IF id \in DOMAIN roles
    THEN Outcome("none", roles, roleSeq, roles[id], <<"execute">>)
    ELSE Outcome("none", roles, roleSeq, NoBody, <<"execute">>)

\* Faulty variant of the repository: every update that finds its row stamps
\* atualizado_em, whether or not a field changed.
RoleRepository_update_touch(id, data) ==
    IF id \notin DOMAIN roles
    THEN Outcome("ValueError", roles, roleSeq, NoBody, <<"execute">>)
    ELSE LET stamped == [SetAttrs(roles[id], data) EXCEPT !.atualizado_em = now]
         IN IF RoleConstraintsOK(roles, stamped)
            THEN Outcome("none", Put(roles, stamped), roleSeq, stamped,
                         <<"execute", "commit", "refresh">>)
            ELSE Outcome("IntegrityError", roles, roleSeq, NoBody, <<"execute", "commit">>)

\* RoleRepository.update: load, setattr each submitted field, commit, refresh.
\* The commit flushes an UPDATE (which sets atualizado_em = now()) only when
\* some attribute has a net change.
RoleRepository_update(id, data) ==
    IF id \notin DOMAIN roles
    THEN Outcome("ValueError", roles, roleSeq, NoBody, <<"execute">>)
    ELSE LET role == SetAttrs(roles[id], data)
             dirty == role # roles[id]
             stamped == [role EXCEPT !.atualizado_em = now]
         IN IF ~dirty
            THEN Outcome("none", roles, roleSeq, role, <<"execute", "commit", "refresh">>)
            ELSE IF RoleConstraintsOK(roles, role)
            THEN Outcome("none", Put(roles, stamped), roleSeq, stamped,
                         <<"execute", "commit", "refresh">>)
            ELSE Outcome("IntegrityError", roles, roleSeq, NoBody, <<"execute", "commit">>)

\* Faulty variant of the repository: the statements carry no WHERE clause.
RoleRepository_delete_unfiltered(id, hard) ==
    LET tbl == IF hard THEN << >>
               ELSE [i \in DOMAIN roles |-> [roles[i] EXCEPT !.ativo = "F", !.atualizado_em = now]]
    IN Outcome("none", tbl, roleSeq, NoBody, <<"execute", "commit">>)

\* RoleRepository.delete: one DELETE or one UPDATE ... SET ativo = false
\* WHERE id = role_id, then commit; a statement that matches no row is no error.
RoleRepository_delete(id, hard) ==
    LET tbl == IF id \notin DOMAIN roles THEN roles
               ELSE IF hard THEN Remove(roles, id)
               ELSE Put(roles, [roles[id] EXCEPT !.ativo = "F", !.atualizado_em = now])
    IN Outcome("none", tbl, roleSeq, NoBody, <<"execute", "commit">>)

\* POST /roles
create_role(p) ==
    /\ Tick
    /\ last' = Req("create_role", 0, p)
    /\ IF ~RoleCreateValid(p)
       THEN /\ resp' = Dispatch("RequestValidationError", 422)
            /\ calls' = << >>
            /\ UNCHANGED roleVars
       ELSE /\ LET out == RoleRepository_create(RoleCreateDump(p))
               IN /\ roles' = out.tbl
                  /\ roleSeq' = out.seq
                  /\ calls' = get_session(out.calls, out.exc # "none")
                  /\ resp' = IF out.exc = "none" THEN Success(201, RoleOut(out.ret))
                             ELSE Dispatch(out.exc, 0)
    /\ UNCHANGED NotRole

\* GET /roles/{role_id}
get_role(id) ==
    /\ Tick
    /\ last' = Req("get_role", id, NoPayload)
    /\ LET out == RoleRepository_get_by_id(id)
           found == out.ret # NoBody
       IN /\ calls' = get_session(out.calls, ~found)
          /\ resp' = IF found THEN Success(200, RoleOut(out.ret))
                     ELSE Dispatch("HTTPException", 404)
    /\ UNCHANGED <<roleVars, NotRole>>

\* Faulty variant of the schema: every key of the body reaches the repository.
RoleUpdateDump_all(p) == p
\* RoleUpdate(**body).model_dump(exclude_unset=True): the fields of the
\* schema that the body sets; any other key of the body is dropped.
RoleUpdateDump(p) == [k \in DOMAIN p \cap {"nome", "descricao", "ativo"} |-> p[k]]

\* PUT /roles/{role_id}: a ValueError of the service becomes HTTPException(404).
update_role(id, p) ==
    /\ Tick
    /\ last' = Req("update_role", id, p)
    /\ LET out == RoleRepository_update(id, RoleUpdateDump(p))
       IN /\ roles' = out.tbl
          /\ calls' = get_session(out.calls, out.exc # "none")
          /\ resp' = CASE out.exc = "none" -> Success(200, RoleOut(out.ret))
                       [] out.exc = "ValueError" -> Dispatch("HTTPException", 404)
                       [] OTHER -> Dispatch(out.exc, 0)
    /\ UNCHANGED <<roleSeq, NotRole>>

\* DELETE /roles/{role_id}?hard=
delete_role(id, hard) ==
    /\ Tick
    /\ last' = Req(IF hard THEN "delete_role_hard" ELSE "delete_role", id, NoPayload)
    /\ LET out == RoleRepository_delete(id, hard)
       IN /\ roles' = out.tbl
          /\ calls' = get_session(out.calls, FALSE)
          /\ resp' = Success(204, NoBody)
    /\ UNCHANGED <<roleSeq, NotRole>>

\* ------------------------------------------------------------ instituicoes
\* The rows the database already holds when the application starts.
SeedInstituicoes ==
    1 :> [id |-> 1, codigo |-> "a", sigla |-> "a", nome_abreviado |-> "x", updated_at |-> 0]

InstPayloads == Payloads([codigo : Names, sigla : Names, nome_abreviado : {"x", NULL}])

\* InstituicaoCreate: codigo, sigla and nome_abreviado are required strings.
InstituicaoCreateValid(p) ==
    \A f \in {"codigo", "sigla", "nome_abreviado"} : f \in DOMAIN p /\ p[f] # NULL
\* InstituicaoUpdate: every field is Optional.
InstituicaoUpdateValid(p) == TRUE
\* Path(..., ge=1)
PathIdValid(id) == id >= 1

\* UniqueConstraint("codigo"), UniqueConstraint("sigla")
InstUniqueOK(tbl, r) ==
    \A i \in DOMAIN tbl : i # r.id => tbl[i].codigo # r.codigo /\ tbl[i].sigla # r.sigla
\* Programa.instituicao_id: ForeignKey(..., ondelete="RESTRICT")
InstReferenced(id) == \E i \in DOMAIN programas : programas[i].instituicao_id = id

\* InstituicaoService.create(payload) reads payload.codigo; the route hands it
\* payload.model_dump(), a dict, which has no attribute codigo.
InstituicaoService_create(data) ==
    Outcome("AttributeError", instituicoes, 0, NoBody, << >>)

\* InstituicaoService.get -> InstituicaoRepository.get -> self.db.get(Instituicao, id),
\* where the route built the service over InstituicaoRepository(db): self.db is
\* that repository, whose get() takes one argument.
InstituicaoService_get(id) ==
    Outcome("TypeError", instituicoes, 0, NoBody, << >>)

\* service.put(...) and service.patch(...): InstituicaoService has no such method.
InstituicaoService_put(id, p) ==
    Outcome("AttributeError", instituicoes, 0, NoBody, << >>)
InstituicaoService_patch(id, p) ==
    Outcome("AttributeError", instituicoes, 0, NoBody, << >>)

\* InstituicaoService.delete over the session itself: a missing row returns
\* silently; otherwise InstituicaoRepository.delete: delete + flush, no commit.
InstituicaoService_delete(id) ==
    IF id \notin DOMAIN instituicoes
    THEN Outcome("none", instituicoes, 0, NoBody, <<"get">>)
    ELSE IF InstReferenced(id)
    THEN Outcome("IntegrityError", instituicoes, 0, NoBody, <<"get", "delete", "flush">>)
    ELSE Outcome("none", Remove(instituicoes, id), 0, NoBody, <<"get", "delete", "flush">>)

\* What a closed session leaves in the database: the flushed changes only if
\* a commit followed them.
Persist(old, out, cs) ==
    IF out.exc = "none" /\ \E i \in 1..Len(cs) : cs[i] = "commit" THEN out.tbl ELSE old

\* The part every institution route shares: run the service call under
\* get_db, answer `ok` when it returns; the routes catch IntegrityError only
\* (rollback, HTTPException 409), anything else reaches the global handlers.
InstRoute(req, valid, out, ok) ==
    /\ Tick
    /\ last' = req
    /\ IF ~valid
       THEN /\ resp' = Dispatch("RequestValidationError", 422)
            /\ calls' = get_db(<< >>)
            /\ UNCHANGED instituicoes
       ELSE /\ calls' = get_db(IF out.exc = "IntegrityError"
                               THEN out.calls \o <<"rollback">> ELSE out.calls)
            /\ instituicoes' = Persist(instituicoes, out, calls')
            /\ resp' = CASE out.exc = "none" -> ok
                         [] out.exc = "IntegrityError" -> Dispatch("HTTPException", 409)
                         [] OTHER -> Dispatch(out.exc, 0)
    /\ UNCHANGED NotInst

\* POST /instituicoes
create_instituicao(p) ==
    InstRoute(Req("create_instituicao", 0, p), InstituicaoCreateValid(p),
              InstituicaoService_create(p), Success(201, NoBody))

\* GET /instituicoes/{instituicao_id}
get_instituicao(id) ==
    InstRoute(Req("get_instituicao", id, NoPayload), PathIdValid(id),
              InstituicaoService_get(id), Success(200, NoBody))

\* PUT /instituicoes/{instituicao_id}
put_instituicao(id, p) ==
    InstRoute(Req("put_instituicao", id, p), PathIdValid(id),
              InstituicaoService_put(id, p), Success(200, NoBody))

\* PATCH /instituicoes/{instituicao_id}
patch_instituicao(id, p) ==
    InstRoute(Req("patch_instituicao", id, p), PathIdValid(id) /\ InstituicaoUpdateValid(p),
              InstituicaoService_patch(id, p), Success(200, NoBody))

\* DELETE /instituicoes/{instituicao_id}: the route catches nothing, so an
\* IntegrityError goes to integrity_error_handler.
delete_instituicao(id) ==
    /\ Tick
    /\ last' = Req("delete_instituicao", id, NoPayload)
    /\ LET out == InstituicaoService_delete(id)
       IN /\ calls' = get_db(out.calls)
          /\ instituicoes' = Persist(instituicoes, out, calls')
          /\ resp' = IF out.exc = "none" THEN Success(200, NoBody) ELSE Dispatch(out.exc, 0)
    /\ UNCHANGED NotInst

\* --------------------------------------------------------------- programas
ProgPayloads ==
    Payloads([instituicao_id : {1, 2}, sigla : Names \cup {NULL},
              status : {"Inativo", NULL}])

\* ProgramaCreate: instituicao_id and sigla are required; status is Optional.
ProgramaCreateValid(p) ==
    /\ "instituicao_id" \in DOMAIN p
    /\ "sigla" \in DOMAIN p /\ p["sigla"] # NULL
\* payload.model_dump(): status defaults to "Ativo"; a None status is left
\* out of the INSERT, so the column's server_default "Ativo" applies.
ProgramaCreateDump(p) ==
    [instituicao_id |-> p["instituicao_id"], sigla |-> p["sigla"],
     status |-> IF "status" \in DOMAIN p /\ p["status"] # NULL THEN p["status"] ELSE "Ativo"]
\* ProgramaRead.model_validate(programa)
ProgramaRead(r) ==
    [id |-> r.id, instituicao_id |-> r.instituicao_id, sigla |-> r.sigla, status |-> r.status]

\* Programa.sigla, Programa.status: nullable=False.
ProgNotNullOK(r) == r.sigla # NULL /\ r.status # NULL
\* UniqueConstraint("instituicao_id", "sigla")
ProgUniqueOK(tbl, r) ==
    \A i \in DOMAIN tbl :
        i # r.id => ~(tbl[i].instituicao_id = r.instituicao_id /\ tbl[i].sigla = r.sigla)
\* ForeignKey("core.instituicoes.id")
ProgForeignKeyOK(r) == r.instituicao_id \in DOMAIN instituicoes
ProgConstraintsOK(tbl, r) ==
    ProgNotNullOK(r) /\ ProgUniqueOK(tbl, r) /\ ProgForeignKeyOK(r)

\* ProgramaRepository.create: Programa(**data); add; commit; refresh.
ProgramaRepository_create(data) ==
    LET obj == [id |-> progSeq + 1, instituicao_id |-> data.instituicao_id,
                sigla |-> data.sigla, status |-> data.status, updated_at |-> now]
    IN IF ProgConstraintsOK(programas, obj)
       THEN Outcome("none", Put(programas, obj), progSeq + 1, obj, <<"add", "commit", "refresh">>)
       ELSE Outcome("IntegrityError", programas, progSeq + 1, NoBody, <<"add", "commit">>)

\* ProgramaRepository.get
ProgramaRepository_get(id) ==
    IF id \in DOMAIN programas
    THEN Outcome("none", programas, progSeq, programas[id], <<"get">>)
    ELSE Outcome("none", programas, progSeq, NoBody, <<"get">>)

\* Faulty variant of the repository: an update that breaks a constraint
\* still leaves the submitted status stored.
ProgramaRepository_update_fieldwise(id, data) ==
    IF id \notin DOMAIN programas
    THEN Outcome("none", programas, progSeq, NoBody, <<"get">>)
    ELSE LET obj == SetAttrs(programas[id], data)
             stamped == [obj EXCEPT !.updated_at = now]
             half == [programas[id] EXCEPT !.status = IF obj.status = NULL THEN @ ELSE obj.status]
         IN IF ProgConstraintsOK(programas, obj)
            THEN Outcome("none", Put(programas, stamped), progSeq, stamped,
                         <<"get", "commit", "refresh">>)
            ELSE Outcome("IntegrityError", Put(programas, half), progSeq, NoBody,
                         <<"get", "commit">>)

\* ProgramaRepository.update: None for a missing row; else setattr, commit, refresh.
ProgramaRepository_update(id, data) ==
    IF id \notin DOMAIN programas
    THEN Outcome("none", programas, progSeq, NoBody, <<"get">>)
    ELSE LET obj == SetAttrs(programas[id], data)
             dirty == obj # programas[id]
             stamped == [obj EXCEPT !.updated_at = now]
         IN IF ~dirty
            THEN Outcome("none", programas, progSeq, obj, <<"get", "commit", "refresh">>)
            ELSE IF ProgConstraintsOK(programas, obj)
            THEN Outcome("none", Put(programas, stamped), progSeq, stamped,
                         <<"get", "commit", "refresh">>)
            ELSE Outcome("IntegrityError", programas, progSeq, NoBody, <<"get", "commit">>)

\* Programa has a status column and no attribute named ativo.
ProgramaHasAtivo == FALSE

\* Programa.docentes has no delete cascade: session.delete(programa) sets
\* programa_id of its docentes to NULL, which the column refuses.
ProgReferenced(id) == \E i \in DOMAIN docentes : docentes[i].programa_id = id

\* ProgramaRepository.delete: False for a missing row; session.delete when
\* hard or when the model has no ativo attribute, else obj.ativo = False; commit.
ProgramaRepository_delete(id, hard) ==
    IF id \notin DOMAIN programas
    THEN Outcome("none", programas, progSeq, FALSE, <<"get">>)
    ELSE IF hard \/ ~ProgramaHasAtivo
    THEN IF ProgReferenced(id)
         THEN Outcome("IntegrityError", programas, progSeq, FALSE, <<"get", "delete", "commit">>)
         ELSE Outcome("none", Remove(programas, id), progSeq, TRUE, <<"get", "delete", "commit">>)
    ELSE Outcome("none", programas, progSeq, TRUE, <<"get", "commit">>)

\* POST /programas: ProgramaService.create_programa turns an IntegrityError
\* into HTTPException(409).
create_programa(p) ==
    /\ Tick
    /\ last' = Req("create_programa", 0, p)
    /\ IF ~ProgramaCreateValid(p)
       THEN /\ resp' = Dispatch("RequestValidationError", 422)
            /\ calls' = get_db(<< >>)
            /\ UNCHANGED progVars
       ELSE LET out == ProgramaRepository_create(ProgramaCreateDump(p))
            IN /\ programas' = out.tbl
               /\ progSeq' = out.seq
               /\ calls' = get_db(out.calls)
               /\ resp' = IF out.exc = "none" THEN Success(201, ProgramaRead(out.ret))
                          ELSE Dispatch("HTTPException", 409)
    /\ UNCHANGED NotProg

\* GET /programas/{programa_id}
get_programa(id) ==
    /\ Tick
    /\ last' = Req("get_programa", id, NoPayload)
    /\ LET out == ProgramaRepository_get(id)
       IN /\ calls' = get_db(out.calls)
          /\ resp' = IF out.ret # NoBody THEN Success(200, ProgramaRead(out.ret))
                     ELSE Dispatch("HTTPException", 404)
    /\ UNCHANGED <<progVars, NotProg>>

\* ProgramaUpdate(**body).model_dump(exclude_unset=True): the fields of the
\* schema that the body sets; any other key of the body is dropped.
ProgramaUpdateDump(p) == [k \in DOMAIN p \cap {"instituicao_id", "sigla", "status"} |-> p[k]]

\* PUT /programas/{programa_id}: ProgramaService.update_programa raises
\* HTTPException(404) for None; an IntegrityError is not caught.
update_programa(id, p) ==
    /\ Tick
    /\ last' = Req("update_programa", id, p)
    /\ LET out == ProgramaRepository_update(id, ProgramaUpdateDump(p))
       IN /\ programas' = out.tbl
          /\ calls' = get_db(out.calls)
          /\ resp' = CASE out.exc # "none" -> Dispatch(out.exc, 0)
                       [] out.exc = "none" /\ out.ret = NoBody -> Dispatch("HTTPException", 404)
                       [] OTHER -> Success(200, ProgramaRead(out.ret))
    /\ UNCHANGED <<progSeq, NotProg>>

\* DELETE /programas/{programa_id}?hard=
delete_programa(id, hard) ==
    /\ Tick
    /\ last' = Req(IF hard THEN "delete_programa_hard" ELSE "delete_programa", id, NoPayload)
    /\ LET out == ProgramaRepository_delete(id, hard)
       IN /\ programas' = out.tbl
          /\ calls' = get_db(out.calls)
          /\ resp' = CASE out.exc # "none" -> Dispatch(out.exc, 0)
                       [] out.exc = "none" /\ out.ret -> Success(204, NoBody)
                       [] OTHER -> Dispatch("HTTPException", 404)
    /\ UNCHANGED <<progSeq, NotProg>>

\* ---------------------------------------------------------------- usuarios
\* UsuarioService, called with typed payloads over one Session.
Salts == {"s1", "s2"}
UsuarioPayloads ==
    Payloads([email : Names \cup {NULL}, nome_completo : {"n", "m"}, senha : {"p", NULL}])

\* What a service call hands back to its caller: a value, or an exception.
Returned(body) == [status |-> 0, type |-> "return", title |-> "ok", body |-> body]
Raised(exc) == [status |-> 0, type |-> "raise", title |-> exc, body |-> NoBody]

\* UsuarioCreate: email and senha are required strings.
UsuarioCreateValid(p) ==
    /\ "email" \in DOMAIN p /\ p["email"] # NULL
    /\ "senha" \in DOMAIN p /\ p["senha"] # NULL
\* UsuarioRead.model_validate(usuario): no senha, no senha_hash.
UsuarioRead(r) == [id |-> r.id, email |-> r.email, nome_completo |-> r.nome_completo, ativo |-> r.ativo]

\* pwd_context.hash(senha): bcrypt under a salt drawn afresh on every call.
_hash_password(senha, salt) == [senha |-> senha, salt |-> salt]

\* Usuario.email, Usuario.nome_completo: nullable=False.
UsuarioNotNullOK(r) == r.email # NULL /\ r.nome_completo # NULL
\* Usuario.email: unique=True.
UsuarioUniqueOK(tbl, r) == \A i \in DOMAIN tbl : i # r.id => tbl[i].email # r.email
UsuarioConstraintsOK(tbl, r) == UsuarioNotNullOK(r) /\ UsuarioUniqueOK(tbl, r)

\* UsuarioRepository.create: Usuario(**data); add; commit; refresh.
UsuarioRepository_create(data) ==
    LET usuario == [id |-> usuarioSeq + 1, email |-> data.email,
                    nome_completo |-> data.nome_completo, senha_hash |-> data.senha_hash,
                    ativo |-> "T", atualizado_em |-> NullTs]
    IN IF UsuarioConstraintsOK(usuarios, usuario)
       THEN Outcome("none", Put(usuarios, usuario), usuarioSeq + 1, usuario,
                    <<"add", "commit", "refresh">>)
       ELSE Outcome("IntegrityError", usuarios, usuarioSeq + 1, NoBody, <<"add", "commit">>)

\* UsuarioRepository.get_by_id
UsuarioRepository_get_by_id(id) ==
    IF id \in DOMAIN usuarios
    THEN Outcome("none", usuarios, usuarioSeq, usuarios[id], <<"execute">>)
    ELSE Outcome("none", usuarios, usuarioSeq, NoBody, <<"execute">>)

\* UsuarioRepository.update: None for a missing row; else setattr, commit, refresh.
UsuarioRepository_update(id, data) ==
    IF id \notin DOMAIN usuarios
    THEN Outcome("none", usuarios, usuarioSeq, NoBody, <<"execute">>)
    ELSE LET usuario == SetAttrs(usuarios[id], data)
             dirty == usuario # usuarios[id]
             stamped == [usuario EXCEPT !.atualizado_em = now]
         IN IF ~dirty
            THEN Outcome("none", usuarios, usuarioSeq, usuario, <<"execute", "commit", "refresh">>)
            ELSE IF UsuarioConstraintsOK(usuarios, usuario)
            THEN Outcome("none", Put(usuarios, stamped), usuarioSeq, stamped,
                         <<"execute", "commit", "refresh">>)
            ELSE Outcome("IntegrityError", usuarios, usuarioSeq, NoBody, <<"execute", "commit">>)

\* UsuarioRepository.delete: False for a missing row; session.delete when
\* hard, else usuario.ativo = False; commit.
UsuarioRepository_delete(id, hard) ==
    IF id \notin DOMAIN usuarios
    THEN Outcome("none", usuarios, usuarioSeq, FALSE, <<"execute">>)
    ELSE IF hard
    THEN Outcome("none", Remove(usuarios, id), usuarioSeq, TRUE, <<"execute", "delete", "commit">>)
    ELSE IF usuarios[id].ativo = "F"
    THEN Outcome("none", usuarios, usuarioSeq, TRUE, <<"execute", "commit">>)
    ELSE Outcome("none", Put(usuarios, [usuarios[id] EXCEPT !.ativo = "F", !.atualizado_em = now]),
                 usuarioSeq, TRUE, <<"execute", "commit">>)

\* UsuarioService.update_usuario, the changeset: model_dump(exclude_unset=True)
\* with senha popped and senha_hash = _hash_password(senha) put in its place.
UsuarioUpdateData(p, salt) ==
    [k \in ((DOMAIN p) \ {"senha"}) \cup (IF "senha" \in DOMAIN p THEN {"senha_hash"} ELSE {}) |->
        IF k = "senha_hash" THEN _hash_password(p["senha"], salt) ELSE p[k]]

\* UsuarioService.create_usuario
create_usuario(p, salt) ==
    /\ Tick
    /\ UsuarioCreateValid(p)
    /\ last' = Req("create_usuario", 0, p)
    /\ LET data == [email |-> p["email"],
                    nome_completo |-> IF "nome_completo" \in DOMAIN p
                                      THEN p["nome_completo"] ELSE NULL,
                    senha_hash |-> _hash_password(p["senha"], salt)]
           out == UsuarioRepository_create(data)
       IN /\ usuarios' = out.tbl
          /\ usuarioSeq' = out.seq
          /\ calls' = out.calls
          /\ resp' = IF out.exc = "none" THEN Returned(UsuarioRead(out.ret)) ELSE Raised(out.exc)
    /\ UNCHANGED NotUser

\* UsuarioService.get_usuario
get_usuario(id) ==
    /\ Tick
    /\ last' = Req("get_usuario", id, NoPayload)
    /\ LET out == UsuarioRepository_get_by_id(id)
       IN /\ calls' = out.calls
          /\ resp' = IF out.ret # NoBody THEN Returned(UsuarioRead(out.ret)) ELSE Returned(NoBody)
    /\ UNCHANGED <<userVars, NotUser>>

\* UsuarioService.update_usuario: pwd_context.hash(None) raises TypeError
\* before the repository is reached.
update_usuario(id, p, salt) ==
    /\ Tick
    /\ last' = Req("update_usuario", id, p)
    /\ IF "senha" \in DOMAIN p /\ p["senha"] = NULL
       THEN /\ resp' = Raised("TypeError")
            /\ calls' = << >>
            /\ UNCHANGED usuarios
       ELSE LET out == UsuarioRepository_update(id, UsuarioUpdateData(p, salt))
            IN /\ usuarios' = out.tbl
               /\ calls' = out.calls
               /\ resp' = CASE out.exc # "none" -> Raised(out.exc)
                            [] out.exc = "none" /\ out.ret = NoBody -> Returned(NoBody)
                            [] OTHER -> Returned(UsuarioRead(out.ret))
    /\ UNCHANGED <<usuarioSeq, NotUser>>

\* UsuarioService.delete_usuario
delete_usuario(id, hard) ==
    /\ Tick
    /\ last' = Req(IF hard THEN "delete_usuario_hard" ELSE "delete_usuario", id, NoPayload)
    /\ LET out == UsuarioRepository_delete(id, hard)
       IN /\ usuarios' = out.tbl
          /\ calls' = out.calls
          /\ resp' = Returned([id |-> id, ok |-> out.ret])
    /\ UNCHANGED <<usuarioSeq, NotUser>>

\* ------------------------------------- InstituicaoService over a session
\* The service as it is written, built over a Session and handed the schema
\* object its signature names; the caller commits when the call returns and
\* rolls back when it raises (session_scope).
InstituicaoRepository_get_by_codigo(codigo) ==
    LET hit == {i \in DOMAIN instituicoes : instituicoes[i].codigo = codigo}
    IN IF hit = {} THEN NoBody ELSE instituicoes[CHOOSE i \in hit : TRUE]
InstituicaoRepository_get_by_sigla(sigla) ==
    LET hit == {i \in DOMAIN instituicoes : instituicoes[i].sigla = sigla}
    IN IF hit = {} THEN NoBody ELSE instituicoes[CHOOSE i \in hit : TRUE]

\* Instituicao.nome_abreviado: nullable=False.
InstNotNullOK(r) == r.nome_abreviado # NULL

\* InstituicaoRepository.create: Instituicao(**data); add; flush.  No row is
\* deleted here, so the next id is one more than the rows there are.
InstituicaoRepository_create(data) ==
    LET obj == [id |-> Cardinality(DOMAIN instituicoes) + 1, codigo |-> data["codigo"],
                sigla |-> data["sigla"], nome_abreviado |-> data["nome_abreviado"],
                updated_at |-> now]
    IN IF InstNotNullOK(obj) /\ InstUniqueOK(instituicoes, obj)
       THEN Outcome("none", Put(instituicoes, obj), 0, obj, <<"add", "flush">>)
       ELSE Outcome("IntegrityError", instituicoes, 0, NoBody, <<"add", "flush">>)

\* InstituicaoRepository.update: setattr each field; add; flush.
InstituicaoRepository_update(obj, data) ==
    LET new == SetAttrs(obj, data)
        stamped == [new EXCEPT !.updated_at = now]
    IN IF new = obj
       THEN Outcome("none", instituicoes, 0, new, <<"add", "flush">>)
       ELSE IF InstNotNullOK(new) /\ InstUniqueOK(instituicoes, new)
       THEN Outcome("none", Put(instituicoes, stamped), 0, stamped, <<"add", "flush">>)
       ELSE Outcome("IntegrityError", instituicoes, 0, NoBody, <<"add", "flush">>)

\* InstituicaoService.create(payload: InstituicaoCreate): looks codigo and
\* sigla up first and raises ValueError when either is taken.
InstituicaoService_create_typed(payload) ==
    IF InstituicaoRepository_get_by_codigo(payload["codigo"]) # NoBody
    THEN Outcome("ValueError", instituicoes, 0, NoBody, <<"scalar">>)
    ELSE IF InstituicaoRepository_get_by_sigla(payload["sigla"]) # NoBody
    THEN Outcome("ValueError", instituicoes, 0, NoBody, <<"scalar", "scalar">>)
    ELSE LET out == InstituicaoRepository_create(payload)
         IN Outcome(out.exc, out.tbl, 0, out.ret, <<"scalar", "scalar">> \o out.calls)

\* InstituicaoService.update(id, payload: InstituicaoUpdate): LookupError for
\* a missing row; looks a submitted codigo and sigla up first and raises
\* ValueError when another row holds it.
InstituicaoService_update_typed(id, payload) ==
    IF id \notin DOMAIN instituicoes
    THEN Outcome("LookupError", instituicoes, 0, NoBody, <<"get">>)
    ELSE LET byCodigo == IF "codigo" \in DOMAIN payload
                         THEN InstituicaoRepository_get_by_codigo(payload["codigo"])
                         ELSE NoBody
             bySigla == IF "sigla" \in DOMAIN payload
                        THEN InstituicaoRepository_get_by_sigla(payload["sigla"])
                        ELSE NoBody
             q1 == IF "codigo" \in DOMAIN payload THEN <<"scalar">> ELSE << >>
             q2 == IF "sigla" \in DOMAIN payload THEN <<"scalar">> ELSE << >>
         IN IF byCodigo # NoBody /\ byCodigo.id # id
            THEN Outcome("ValueError", instituicoes, 0, NoBody, <<"get">> \o q1)
            ELSE IF bySigla # NoBody /\ bySigla.id # id
            THEN Outcome("ValueError", instituicoes, 0, NoBody, <<"get">> \o q1 \o q2)
            ELSE LET out == InstituicaoRepository_update(instituicoes[id], payload)
                 IN Outcome(out.exc, out.tbl, 0, out.ret, <<"get">> \o q1 \o q2 \o out.calls)

\* session_scope: commit when the block returned, rollback when it raised,
\* close in both cases.
session_scope(cs, failed) ==
    cs \o (IF failed THEN <<"rollback", "close">> ELSE <<"commit", "close">>)

\* InstituicaoService(db).create(InstituicaoCreate(**p))
service_create_instituicao(p) ==
    /\ Tick
    /\ InstituicaoCreateValid(p)
    /\ last' = Req("InstituicaoService.create", 0, p)
    /\ LET out == InstituicaoService_create_typed(p)
       IN /\ calls' = session_scope(out.calls, out.exc # "none")
          /\ instituicoes' = Persist(instituicoes, out, calls')
          /\ resp' = IF out.exc = "none" THEN Returned(out.ret) ELSE Raised(out.exc)
    /\ UNCHANGED NotInst

\* InstituicaoService(db).update(id, InstituicaoUpdate(**p))
service_update_instituicao(id, p) ==
    /\ Tick
    /\ InstituicaoUpdateValid(p)
    /\ last' = Req("InstituicaoService.update", id, p)
    /\ LET out == InstituicaoService_update_typed(id, p)
       IN /\ calls' = session_scope(out.calls, out.exc # "none")
          /\ instituicoes' = Persist(instituicoes, out, calls')
          /\ resp' = IF out.exc = "none" THEN Returned(out.ret) ELSE Raised(out.exc)
    /\ UNCHANGED NotInst

\* ---------------------------------------------------------------- docentes
NotDoc == <<roleVars, instVars, progVars, userVars, linkVars, conc, raised, DEBUG>>

\* A user the database already holds when the docente operations run.
SeedUsuarios ==
    1 :> [id |-> 1, email |-> "a", nome_completo |-> "a",
          senha_hash |-> _hash_password("a", "s1"), ativo |-> "T", atualizado_em |-> NullTs]

DocenteCreatePayloads ==
    Payloads([usuario_id : {1, 2}, programa_id : {1, 2}, tipo_vinculo : {"Permanente"}])
\* DocenteUpdate has neither usuario_id nor programa_id: every field Optional.
DocenteUpdatePayloads ==
    Payloads([tipo_vinculo : {"Colaborador", NULL}, status : {"Afastado"}])

\* DocenteCreate: usuario_id, programa_id and tipo_vinculo are required
\* (data_vinculacao, required alike, is not carried by the model).
DocenteCreateValid(p) == DOMAIN p = {"usuario_id", "programa_id", "tipo_vinculo"}
\* DocenteRead.model_validate(docente)
DocenteRead(r) ==
    [id |-> r.id, usuario_id |-> r.usuario_id, programa_id |-> r.programa_id,
     tipo_vinculo |-> r.tipo_vinculo, status |-> r.status]

\* Docente.tipo_vinculo: nullable=False.
DocNotNullOK(r) == r.tipo_vinculo # NULL
\* UniqueConstraint("usuario_id", "programa_id")
DocUniqueOK(tbl, r) ==
    \A i \in DOMAIN tbl :
        i # r.id => ~(tbl[i].usuario_id = r.usuario_id /\ tbl[i].programa_id = r.programa_id)
\* Faulty variant of the foreign keys: any reference is accepted.
DocForeignKeyOK_off(r) == TRUE
\* ForeignKey("auth.usuarios.id"), ForeignKey("core.programas.id")
DocForeignKeyOK(r) ==
    r.usuario_id \in DOMAIN usuarios /\ r.programa_id \in DOMAIN programas
DocConstraintsOK(tbl, r) ==
    DocNotNullOK(r) /\ DocUniqueOK(tbl, r) /\ DocForeignKeyOK(r)

\* DocenteRepository.create: Docente(**data.model_dump()); add; commit; refresh.
\* status takes the schema default "Ativo".
DocenteRepository_create(data) ==
    LET new_docente == [id |-> docenteSeq + 1, usuario_id |-> data["usuario_id"],
                        programa_id |-> data["programa_id"],
                        tipo_vinculo |-> data["tipo_vinculo"], status |-> "Ativo"]
    IN IF DocConstraintsOK(docentes, new_docente)
       THEN Outcome("none", Put(docentes, new_docente), docenteSeq + 1, new_docente,
                    <<"add", "commit", "refresh">>)
       ELSE Outcome("IntegrityError", docentes, docenteSeq + 1, NoBody, <<"add", "commit">>)

\* DocenteRepository.list_all
DocenteRepository_list_all == { docentes[i] : i \in DOMAIN docentes }

\* DocenteRepository.update: setattr over model_dump(exclude_unset=True);
\* add; commit; refresh.
DocenteRepository_update(docente, data) ==
    LET obj == SetAttrs(docente, data)
    IN IF DocConstraintsOK(docentes, obj)
       THEN Outcome("none", Put(docentes, obj), docenteSeq, obj,
                    <<"get", "add", "commit", "refresh">>)
       ELSE Outcome("IntegrityError", docentes, docenteSeq, NoBody, <<"get", "add", "commit">>)

\* DocenteRepository.delete: session.delete; commit.
DocenteRepository_delete(docente) ==
    Outcome("none", Remove(docentes, docente.id), docenteSeq, NoBody,
            <<"get", "delete", "commit">>)

\* An HTTPException raised by DocenteService before any write.
DocenteRefused(status_code, cs) ==
    [exc |-> "HTTPException", status_code |-> status_code, tbl |-> docentes,
     seq |-> docenteSeq, ret |-> NoBody, calls |-> cs]

\* Faulty variant of the service: the pair already taken is answered 400.
DocenteService_create_docente_400(payload) ==
    IF \E d \in DocenteRepository_list_all :
          d.usuario_id = payload["usuario_id"] /\ d.programa_id = payload["programa_id"]
    THEN DocenteRefused(400, <<"list_all">>)
    ELSE LET out == DocenteRepository_create(payload)
         IN [out EXCEPT !.calls = <<"list_all">> \o @]

\* DocenteService.create_docente: HTTPException(409) when a docente of the
\* same (usuario_id, programa_id) is among list_all(); else repo.create.
DocenteService_create_docente(payload) ==
    IF \E d \in DocenteRepository_list_all :
          d.usuario_id = payload["usuario_id"] /\ d.programa_id = payload["programa_id"]
    THEN DocenteRefused(409, <<"list_all">>)
    ELSE LET out == DocenteRepository_create(payload)
         IN [out EXCEPT !.calls = <<"list_all">> \o @]

\* DocenteService.update_docente: HTTPException(404) for a missing row.
DocenteService_update_docente(docente_id, payload) ==
    IF docente_id \notin DOMAIN docentes
    THEN DocenteRefused(404, <<"get">>)
    ELSE DocenteRepository_update(docentes[docente_id], payload)

\* DocenteService.delete_docente: HTTPException(404) for a missing row;
\* returns None after repo.delete.
DocenteService_delete_docente(docente_id) ==
    IF docente_id \notin DOMAIN docentes
    THEN DocenteRefused(404, <<"get">>)
    ELSE DocenteRepository_delete(docentes[docente_id])

\* What a docente route answers for the outcome of its service call.
DocenteAnswer(out, ok) ==
    CASE out.exc = "none" -> ok
      [] out.exc = "HTTPException" -> Dispatch("HTTPException", out.status_code)
      [] OTHER -> Dispatch(out.exc, 0)

\* POST /docentes (app/api/routes/docentes.py create_docente)
create_docente(p) ==
    /\ Tick
    /\ last' = Req("create_docente", 0, p)
    /\ IF ~DocenteCreateValid(p)
       THEN /\ resp' = Dispatch("RequestValidationError", 422)
            /\ calls' = get_db(<< >>)
            /\ UNCHANGED docVars
       ELSE LET out == DocenteService_create_docente(p)
            IN /\ docentes' = out.tbl
               /\ docenteSeq' = out.seq
               /\ calls' = get_db(out.calls)
               /\ resp' = DocenteAnswer(out, Success(201, DocenteRead(out.ret)))
    /\ UNCHANGED NotDoc

\* PUT /docentes/{docente_id}
update_docente(id, p) ==
    /\ Tick
    /\ last' = Req("update_docente", id, p)
    /\ LET out == DocenteService_update_docente(id, p)
       IN /\ docentes' = out.tbl
          /\ calls' = get_db(out.calls)
          /\ resp' = DocenteAnswer(out, Success(200, DocenteRead(out.ret)))
    /\ UNCHANGED <<docenteSeq, NotDoc>>

\* DELETE /docentes/{docente_id}: ok is the None the service returns, so
\* the route raises HTTPException(404) after the row is removed.
delete_docente(id) ==
    /\ Tick
    /\ last' = Req("delete_docente", id, NoPayload)
    /\ LET out == DocenteService_delete_docente(id)
       IN /\ docentes' = out.tbl
          /\ calls' = get_db(out.calls)
          /\ resp' = DocenteAnswer(out, Dispatch("HTTPException", 404))
    /\ UNCHANGED <<docenteSeq, NotDoc>>

\* ------------------------------------------------------------------- lists
\* Query(..., ge=1, le=100) for limit and Query(0, ge=0) for offset.
Limits == 0..2
Offsets == 0..2
PageValid(limit, offset) == limit >= 1 /\ offset >= 0

\* ORDER BY id DESC
RECURSIVE DescById(_)
DescById(S) ==
    IF S = {} THEN << >>
    ELSE LET m == CHOOSE x \in S : \A y \in S : y <= x
         IN <<m>> \o DescById(S \ {m})
\* Every order in which a SELECT without ORDER BY may return the rows.
RECURSIVE AnyOrder(_)
AnyOrder(S) ==
    IF S = {} THEN { << >> }
    ELSE UNION { { <<x>> \o t : t \in AnyOrder(S \ {x}) } : x \in S }
\* .limit(limit).offset(offset) over the ordered ids.
Page(ids, limit, offset) ==
    [k \in 1..(IF Len(ids) - offset < limit
               THEN (IF Len(ids) - offset < 0 THEN 0 ELSE Len(ids) - offset)
               ELSE limit) |-> ids[offset + k]]

\* The WHERE clauses of RoleRepository.list: nome ILIKE %search% when search
\* is given (the names are single letters), ativo IS :ativo when given.
RoleListed(search, ativo) ==
    { i \in DOMAIN roles : /\ search # NULL => roles[i].nome = search
                           /\ ativo # NULL => roles[i].ativo = ativo }

\* RoleRepository.list: count over the filtered statement, then the page
\* ordered by id descending.
RoleRepository_list(limit, offset, search, ativo) ==
    LET ids == Page(DescById(RoleListed(search, ativo)), limit, offset)
    IN [items |-> [k \in DOMAIN ids |-> roles[ids[k]]],
        total |-> Cardinality(RoleListed(search, ativo))]

\* GET /roles: RoleService.list_roles validates each item into RoleOut; the
\* route returns {"items": items, "total": total}.
list_roles(limit, offset, search, ativo) ==
    /\ Tick
    /\ last' = Req("list_roles", 0,
                   [limit |-> limit, offset |-> offset, search |-> search, ativo |-> ativo])
    /\ IF ~PageValid(limit, offset)
       THEN /\ resp' = Dispatch("RequestValidationError", 422)
            /\ calls' = << >>
       ELSE LET page == RoleRepository_list(limit, offset, search, ativo)
            IN /\ resp' = Success(200, [items |-> [k \in DOMAIN page.items |-> RoleOut(page.items[k])],
                                        total |-> page.total])
               /\ calls' = get_session(<<"execute", "execute">>, FALSE)
    /\ UNCHANGED <<roleVars, NotRole>>

\* ProgramaRepository.list: the page of a SELECT without ORDER BY, and the
\* count of all programs.
ProgramaRepository_list(order, limit, offset) ==
    LET ids == Page(order, limit, offset)
    IN [items |-> [k \in DOMAIN ids |-> programas[ids[k]]],
        total |-> Cardinality(DOMAIN programas)]

\* GET /programas: ProgramaList(items=..., total=...)
list_programas(order, limit, offset) ==
    /\ Tick
    /\ last' = Req("list_programas", 0, [limit |-> limit, offset |-> offset])
    /\ IF ~PageValid(limit, offset)
       THEN /\ resp' = Dispatch("RequestValidationError", 422)
            /\ calls' = get_db(<< >>)
       ELSE LET page == ProgramaRepository_list(order, limit, offset)
            IN /\ resp' = Success(200, [items |-> [k \in DOMAIN page.items |->
                                                      ProgramaRead(page.items[k])],
                                        total |-> page.total])
               /\ calls' = get_db(<<"execute", "execute">>)
    /\ UNCHANGED <<progVars, NotProg>>

\* GET /instituicoes: service.list(limit, offset) passes by position what
\* InstituicaoService.list takes by keyword only: TypeError.
list_instituicoes(limit, offset) ==
    /\ Tick
    /\ last' = Req("list_instituicoes", 0, [limit |-> limit, offset |-> offset])
    /\ resp' = IF ~PageValid(limit, offset) THEN Dispatch("RequestValidationError", 422)
               ELSE Dispatch("TypeError", 0)
    /\ calls' = get_db(<< >>)
    /\ UNCHANGED <<instVars, NotInst>>

\* ------------------------------------------------- usuarios_programas links
NotLink == <<roleVars, instVars, progVars, userVars, docVars, conc, raised, DEBUG>>

\* The rows the links refer to: two roles and two programs, beside the user.
SeedRoles ==
    [i \in {1, 2} |-> [id |-> i, nome |-> IF i = 1 THEN "a" ELSE "b", descricao |-> NULL,
                       ativo |-> "T", atualizado_em |-> NullTs]]
SeedProgramas ==
    [i \in {1, 2} |-> [id |-> i, instituicao_id |-> 1, sigla |-> IF i = 1 THEN "a" ELSE "b",
                       status |-> "Ativo", updated_at |-> 0]]

\* (programa_id, role_id) of the links user 1 may hold:
\* UniqueConstraint("usuario_id", "programa_id", "role_id").
LinkKeys == <<(<<1, 1>>), (<<1, 2>>), (<<2, 1>>), (<<2, 2>>)>>
\* Every set of links the table may hold at start-up: each one Ativo, or
\* Desligado with its data_desvinculacao set.
SeedVinculos ==
    { [i \in { k \in DOMAIN LinkKeys : c[k] # "none" } |->
          [id |-> i, usuario_id |-> 1, programa_id |-> LinkKeys[i][1],
           role_id |-> LinkKeys[i][2], status |-> c[i], data_vinculacao |-> 1,
           data_desvinculacao |-> IF c[i] = "Desligado" THEN 1 ELSE NullTs]] :
      c \in [DOMAIN LinkKeys -> {"none", "Ativo", "Desligado"}] }

\* None, where an id of a link is expected.
NoLink == 0

\* The rows the statement of get_by_usuario_programa selects.
LinksAtivos(usuario_id, programa_id) ==
    { i \in DOMAIN vinculos : /\ vinculos[i].usuario_id = usuario_id
                              /\ vinculos[i].programa_id = programa_id
                              /\ vinculos[i].status = "Ativo" }

\* UsuarioProgramaRoleRepository.get_by_usuario_programa: session.scalar
\* gives the first row of the result, None when there is none; the
\* statement has no ORDER BY, so any selected row may come first.
UsuarioProgramaRoleRepository_get_by_usuario_programa(usuario_id, programa_id) ==
    IF LinksAtivos(usuario_id, programa_id) = {} THEN {NoLink}
    ELSE LinksAtivos(usuario_id, programa_id)

\* UsuarioProgramaRoleService.desvincular_usuario_programa, vinculo being
\* what the repository returned: False for None; else status = "Desligado",
\* data_desvinculacao = date.today(), commit, True.
UsuarioProgramaRoleService_desvincular_usuario_programa(vinculo) ==
    IF vinculo = NoLink
    THEN Outcome("none", vinculos, 0, [ok |-> FALSE], <<"execute">>)
    ELSE Outcome("none",
                 Put(vinculos, [vinculos[vinculo] EXCEPT !.status = "Desligado",
                                                        !.data_desvinculacao = now]),
                 0, [ok |-> TRUE], <<"execute", "commit">>)

\* DELETE /programas/{programa_id}/usuarios/{usuario_id}: programas.py does
\* not import UsuarioProgramaRoleService, so the first statement of the
\* route raises NameError.
desvincular_usuario_programa(programa_id, usuario_id) ==
    /\ Tick
    /\ last' = Req("desvincular_usuario_programa", 0,
                   [programa_id |-> programa_id, usuario_id |-> usuario_id])
    /\ resp' = Dispatch("NameError", 0)
    /\ calls' = get_db(<< >>)
    /\ UNCHANGED <<linkVars, NotLink>>

\* UsuarioProgramaRoleService(db).desvincular_usuario_programa called
\* directly over one Session.
service_desvincular_usuario_programa(usuario_id, programa_id) ==
    /\ Tick
    /\ last' = Req("service_desvincular_usuario_programa", 0,
                   [programa_id |-> programa_id, usuario_id |-> usuario_id])
    /\ \E vinculo \in UsuarioProgramaRoleRepository_get_by_usuario_programa(usuario_id, programa_id) :
          LET out == UsuarioProgramaRoleService_desvincular_usuario_programa(vinculo)
          IN /\ vinculos' = out.tbl
             /\ calls' = out.calls
             /\ resp' = Returned(out.ret)
    /\ UNCHANGED NotLink

\* ----------------------------------------------------------------- sessions
\* Bodies of the role routes that reach every way a request can end.
SessionPayloads == Payloads([nome : Names])

\* GET /hp: the route depends on the get_session of app/deps.py, runs its
\* two statements inside try/except and always returns.
health_plus ==
    /\ Tick
    /\ last' = Req("health_plus", 0, NoPayload)
    /\ resp' = Success(200, NoBody)
    /\ calls' = deps_get_session(<<"execute", "execute">>)
    /\ UNCHANGED <<roleVars, NotRole>>

\* ------------------------------------------------------------ update bodies
\* Bodies that carry an id and a key no entity has, beside a field.
RoleUpdateBodies == Payloads([nome : Names, id : {3}, foo : {"x"}])
ProgramaUpdateBodies == Payloads([status : {"Inativo"}, id : {3}, foo : {"x"}])

\* -------------------------------------------------- two requests in flight
\* Two POST requests, each in its own session and transaction, interleaved
\* at the statements they send to the database.
Slots == {"r1", "r2"}
Idle == [pc |-> "idle", op |-> "none", payload |-> NoPayload, resp |-> Success(200, NoBody),
         row |-> NoBody]
Done(s) == conc[s].pc = "done"

\* The request reaches its handler, or fails validation before it.
conc_request(s, op, p) ==
    /\ conc[s].pc = "idle"
    /\ \/ op = "create_role" /\ p \in RolePayloads
       \/ op = "create_instituicao" /\ p \in InstPayloads
    /\ LET valid == IF op = "create_role" THEN RoleCreateValid(p) ELSE InstituicaoCreateValid(p)
       IN conc' = [conc EXCEPT ![s] =
                      IF valid
                      THEN [pc |-> "handler", op |-> op, payload |-> p,
                            resp |-> Success(200, NoBody), row |-> NoBody]
                      ELSE [pc |-> "done", op |-> op, payload |-> p,
                            resp |-> Dispatch("RequestValidationError", 422), row |-> NoBody]]
    /\ UNCHANGED <<roleVars, instVars, progVars, userVars, now, last, resp, calls, raised,
                 docVars, linkVars, DEBUG>>

\* POST /instituicoes: the handler fails in InstituicaoService.create before
\* any statement is sent.
conc_create_instituicao(s) ==
    /\ conc[s].pc = "handler" /\ conc[s].op = "create_instituicao"
    /\ LET out == InstituicaoService_create(conc[s].payload)
       IN conc' = [conc EXCEPT ![s].pc = "done",
                               ![s].resp = IF out.exc = "none" THEN Success(201, NoBody)
                                           ELSE IF out.exc = "IntegrityError"
                                           THEN Dispatch("HTTPException", 409)
                                           ELSE Dispatch(out.exc, 0)]
    /\ UNCHANGED <<roleVars, instVars, progVars, userVars, now, last, resp, calls, raised,
                 docVars, linkVars, DEBUG>>

\* POST /roles, RoleRepository.create, the INSERT that commit() flushes: it
\* waits while another open transaction holds the same nome in the unique
\* index, fails when a committed row holds it, and otherwise leaves the row
\* pending in this transaction.
conc_insert_role(s) ==
    /\ conc[s].pc = "handler" /\ conc[s].op = "create_role"
    /\ LET data == RoleCreateDump(conc[s].payload)
           role == [id |-> roleSeq + 1, nome |-> data.nome, descricao |-> data.descricao,
                    ativo |-> data.ativo, atualizado_em |-> NullTs]
       IN /\ \A t \in Slots \ {s} : conc[t].pc = "flushed" => conc[t].row.nome # role.nome
          /\ roleSeq' = roleSeq + 1
          /\ conc' = [conc EXCEPT ![s] =
                         IF RoleConstraintsOK(roles, role)
                         THEN [@ EXCEPT !.pc = "flushed", !.row = role]
                         ELSE [@ EXCEPT !.pc = "done", !.resp = Dispatch("IntegrityError", 0)]]
    /\ UNCHANGED <<roles, instVars, progVars, userVars, now, last, resp, calls, raised,
                 docVars, linkVars, DEBUG>>

\* POST /roles, RoleRepository.create, the COMMIT and the 201 answer.
conc_commit_role(s) ==
    /\ conc[s].pc = "flushed"
    /\ roles' = Put(roles, conc[s].row)
    /\ conc' = [conc EXCEPT ![s].pc = "done", ![s].resp = Success(201, RoleOut(conc[s].row))]
    /\ UNCHANGED <<roleSeq, instVars, progVars, userVars, now, last, resp, calls, raised,
                 docVars, linkVars, DEBUG>>

\* --------------------------------------------- what leaves a route, answered
\* A route as the error path sees it: its method and url, its session
\* dependency, and its own except clause (the class it catches, the status of
\* the HTTPException it raises instead, whether it rolls back first).
Route(op, method, url, session, catch, status_code, detail, rollback) ==
    [op |-> op, method |-> method, url |-> url, session |-> session,
     catch |-> catch, status_code |-> status_code, detail |-> detail,
     rollback |-> rollback]
Routes ==
    {Route("create_instituicao", "POST", "/instituicoes", "get_db",
           "IntegrityError", 409, "Violação de unicidade", TRUE),
     Route("put_instituicao", "PUT", "/instituicoes/1", "get_db",
           "IntegrityError", 409, "Violação de unicidade", TRUE),
     Route("patch_instituicao", "PATCH", "/instituicoes/1", "get_db",
           "IntegrityError", 409, "Violação de unicidade", TRUE),
     Route("delete_instituicao", "DELETE", "/instituicoes/1", "get_db",
           "none", 0, NULL, FALSE),
     Route("create_programa", "POST", "/programas", "get_db",
           "IntegrityError", 409, "Violação de unicidade em Programa", FALSE),
     Route("update_programa", "PUT", "/programas/1", "get_db",
           "none", 0, NULL, FALSE),
     Route("create_role", "POST", "/roles", "get_session",
           "none", 0, NULL, FALSE),
     Route("update_role", "PUT", "/roles/1", "get_session",
           "ValueError", 404, "Role não encontrada", FALSE),
     Route("create_usuario", "POST", "/usuarios", "get_session",
           "ValueError", 400, "text of the exception", FALSE)}

\* Messages of the database driver, piece by piece.
EngineErrors ==
    {IntegrityError("23505", <<"duplicate key value violates unique constraint. DETAIL: ",
                               "Key (", "sigla", ")=(", "a", ") already exists", ".">>),
     IntegrityError("23505", <<"duplicate key value violates unique constraint. DETAIL: ",
                               "Key (", "codigo", ")=(", "", ") already exists", ".">>),
     IntegrityError("23505", <<"duplicate key value violates unique constraint. DETAIL: ",
                               "Key (", "instituicao_id, sigla", ")=(", "1, a",
                               ") already exists", ".">>),
     IntegrityError("23503", <<"insert or update violates foreign key constraint. DETAIL: ",
                               "Key (", "instituicao_id", ")=(", "2",
                               ") is not present in table", ".">>),
     IntegrityError("23502", <<"null value in column violates not-null constraint">>),
     IntegrityError(NULL, <<"Key (", "sigla", ")=(", "UEPB", ") already exists">>)}

\* What a route body can raise.
Raisable ==
    EngineErrors
    \cup {HTTPException(404, "não encontrada")}
    \cup {OtherException(c, "text of the exception") :
             c \in {"ValueError", "AttributeError", "TypeError"}}

\* The body schemas of the create routes, field by field in declaration
\* order: name, whether it is required, the failure kind of a null.
Field(name, required, kind) == [name |-> name, required |-> required, kind |-> kind]
BodySchema(op) ==
    CASE op = "create_role" ->
            <<Field("nome", TRUE, "string_type"), Field("ativo", FALSE, "bool_type")>>
      [] op = "create_instituicao" ->
            <<Field("codigo", TRUE, "string_type"), Field("sigla", TRUE, "string_type"),
              Field("nome_abreviado", TRUE, "string_type")>>
      [] OTHER -> << >>
BodyPayloads(op) ==
    CASE op = "create_role" -> RolePayloads
      [] op = "create_instituicao" -> InstPayloads
      [] OTHER -> {}

\* Whether field f of the schema rejects payload p.
Offends(f, p) ==
    IF f.name \in DOMAIN p THEN p[f.name] = NULL ELSE f.required
\* exc.errors() of the validation of p: one item for every offending field,
\* in declaration order.
pydantic_errors(schema, p) ==
    LET bad == SelectSeq(schema, LAMBDA f : Offends(f, p))
    IN [i \in 1..Len(bad) |->
           IF bad[i].name \in DOMAIN p
           THEN [loc |-> <<"body", bad[i].name>>, msg |-> "Input should be valid",
                 type |-> bad[i].kind, input |-> NULL]
           ELSE [loc |-> <<"body", bad[i].name>>, msg |-> "Field required",
                 type |-> "missing", input |-> "body"]]

\* The route's own except clause: the exception that leaves the route and
\* the Session calls made on the way.
RouteCatch(route, exc) ==
    IF route.catch = exc.class
    THEN [exc |-> HTTPException(route.status_code, route.detail),
          calls |-> IF route.rollback THEN <<"rollback">> ELSE << >>]
    ELSE [exc |-> exc, calls |-> << >>]

\* The session dependency's tear-down.
Teardown(route, cs, failed) ==
    IF route.session = "get_session" THEN get_session(cs, failed) ELSE get_db(cs)

\* A response with its whole payload.
Answer(response) ==
    [status |-> response.status_code, type |-> response.content.type,
     title |-> response.content.title, body |-> response.content]

NoRaise == [request |-> Request("GET", "/", NULL), exc |-> OtherException("none", "")]

\* The body of a route raises exc (its service or repository call did); an
\* IntegrityError is raised by the flush of a statement.
route_raises(route, request_id, exc) ==
    /\ last' = Req(route.op, 0, NoPayload)
    /\ raised' = [request |-> Request(route.method, route.url, request_id), exc |-> exc]
    /\ LET left == RouteCatch(route, exc)
           sent == IF exc.class = "IntegrityError" THEN <<"flush">> ELSE << >>
       IN /\ calls' = Teardown(route, sent \o left.calls, TRUE)
          /\ resp' = Answer(ExceptionHandlers(raised'.request, left.exc))
    /\ UNCHANGED <<roleVars, instVars, progVars, userVars, docVars, linkVars, now, conc, DEBUG>>

\* The body of the request fails the route's schema: the route is not entered.
route_rejects(route, request_id, p) ==
    /\ p \in BodyPayloads(route.op)
    /\ pydantic_errors(BodySchema(route.op), p) # << >>
    /\ last' = Req(route.op, 0, p)
    /\ raised' = [request |-> Request(route.method, route.url, request_id),
                  exc |-> RequestValidationError(pydantic_errors(BodySchema(route.op), p))]
    /\ calls' = Teardown(route, << >>, TRUE)
    /\ resp' = Answer(ExceptionHandlers(raised'.request, raised'.exc))
    /\ UNCHANGED <<roleVars, instVars, progVars, userVars, docVars, linkVars, now, conc, DEBUG>>

\* --------------------------------------------------------------------- spec
\* The observers at start-up: no request handled yet.
InitObservers ==
    /\ now = 1
    /\ last = [op |-> "none", id |-> 0, payload |-> NoPayload, again |-> FALSE]
    /\ resp = Success(200, NoBody)
    /\ calls = << >>
    /\ conc = [s \in Slots |-> Idle]
    /\ raised = NoRaise

\* The store and the observers at start-up, the users apart.
InitTables ==
    /\ InitObservers
    /\ roles = << >>
    /\ roleSeq = 0
    /\ instituicoes = SeedInstituicoes
    /\ programas = << >>
    /\ progSeq = 0
    /\ docentes = << >>
    /\ docenteSeq = 0
    /\ vinculos = << >>

\* The store and the observers at start-up, whatever the environment.
InitStore == InitTables /\ usuarios = << >> /\ usuarioSeq = 0

\* PPGHUB_DEBUG is unset: the flag is off.
Init == InitStore /\ DEBUG = FALSE
\* PPGHUB_DEBUG is set to either value.
InitEnv == InitStore /\ DEBUG \in BOOLEAN

\* The role routes.
Next ==
    \/ \E p \in RolePayloads : create_role(p)
    \/ \E id \in Ids : get_role(id)
    \/ \E id \in Ids, p \in RolePayloads : update_role(id, p)
    \/ \E id \in Ids, hard \in BOOLEAN : delete_role(id, hard)

Spec == Init /\ [][Next]_vars

\* The institution routes.
NextInst ==
    \/ \E p \in InstPayloads : create_instituicao(p)
    \/ \E id \in 0..2 : get_instituicao(id)
    \/ \E id \in 0..2, p \in InstPayloads : put_instituicao(id, p)
    \/ \E id \in 0..2, p \in InstPayloads : patch_instituicao(id, p)
    \/ \E id \in 0..2 : delete_instituicao(id)

SpecInst == Init /\ [][NextInst]_vars

\* The program routes.
NextProg ==
    \/ \E p \in ProgPayloads : create_programa(p)
    \/ \E id \in Ids : get_programa(id)
    \/ \E id \in Ids, p \in ProgPayloads : update_programa(id, p)
    \/ \E id \in Ids, hard \in BOOLEAN : delete_programa(id, hard)

SpecProg == Init /\ [][NextProg]_vars
\* UsuarioService called directly.
NextUsuario ==
    \/ \E p \in UsuarioPayloads, salt \in Salts : create_usuario(p, salt)
    \/ \E id \in Ids : get_usuario(id)
    \/ \E id \in Ids, p \in UsuarioPayloads, salt \in Salts : update_usuario(id, p, salt)
    \/ \E id \in Ids, hard \in BOOLEAN : delete_usuario(id, hard)

SpecUsuario == Init /\ [][NextUsuario]_vars

\* Two POST requests at once.
NextConc ==
    \/ \E s \in Slots, op \in {"create_role", "create_instituicao"},
          p \in RolePayloads \cup InstPayloads : conc_request(s, op, p)
    \/ \E s \in Slots : conc_create_instituicao(s)
    \/ \E s \in Slots : conc_insert_role(s)
    \/ \E s \in Slots : conc_commit_role(s)

SpecConc == Init /\ [][NextConc]_vars

\* Exceptions leaving the routes, and the responses built for them.
NextErr ==
    \/ \E route \in Routes, request_id \in {NULL, "rid"}, exc \in Raisable :
          route_raises(route, request_id, exc)
    \/ \E route \in Routes, request_id \in {NULL, "rid"},
          p \in RolePayloads \cup InstPayloads : route_rejects(route, request_id, p)

SpecErr == InitEnv /\ [][NextErr]_vars

\* InstituicaoService called directly.
NextInstService ==
    \/ \E p \in InstPayloads : service_create_instituicao(p)
    \/ \E id \in Ids, p \in InstPayloads : service_update_instituicao(id, p)

SpecInstService == Init /\ [][NextInstService]_vars

\* The store at start-up when it already holds a user.
InitDocente == InitTables /\ usuarios = SeedUsuarios /\ usuarioSeq = 1 /\ DEBUG = FALSE

\* The docente routes, with the program and institution routes that can
\* add and remove the rows a docente refers to.
NextDocente ==
    \/ \E p \in ProgPayloads : create_programa(p)
    \/ \E id \in Ids, p \in ProgPayloads : update_programa(id, p)
    \/ \E id \in Ids, hard \in BOOLEAN : delete_programa(id, hard)
    \/ \E id \in 0..2 : delete_instituicao(id)
    \/ \E p \in DocenteCreatePayloads : create_docente(p)
    \/ \E id \in Ids, p \in DocenteUpdatePayloads : update_docente(id, p)
    \/ \E id \in Ids : delete_docente(id)

SpecDocente == InitDocente /\ [][NextDocente]_vars

\* The list routes, with the routes that add and hide the rows they page.
NextList ==
    \/ \E p \in RolePayloads : create_role(p)
    \/ \E id \in Ids : delete_role(id, FALSE)
    \/ \E p \in ProgPayloads : create_programa(p)
    \/ \E limit \in Limits, offset \in Offsets, search \in {NULL, "a"},
          ativo \in {NULL, "T", "F"} : list_roles(limit, offset, search, ativo)
    \/ \E order \in AnyOrder(DOMAIN programas), limit \in Limits, offset \in Offsets :
          list_programas(order, limit, offset)
    \/ \E limit \in Limits, offset \in Offsets : list_instituicoes(limit, offset)

SpecList == Init /\ [][NextList]_vars

\* The store at start-up when it already holds links of a user to programs.
InitLink ==
    /\ InitObservers
    /\ roles = SeedRoles /\ roleSeq = 2
    /\ instituicoes = SeedInstituicoes
    /\ programas = SeedProgramas /\ progSeq = 2
    /\ usuarios = SeedUsuarios /\ usuarioSeq = 1
    /\ docentes = << >> /\ docenteSeq = 0
    /\ vinculos \in SeedVinculos
    /\ DEBUG = FALSE

\* Unlinking a user from a program: the route, and the service it names.
NextLink ==
    \/ \E programa_id \in {1, 2}, usuario_id \in {1, 2} :
          desvincular_usuario_programa(programa_id, usuario_id)
    \/ \E programa_id \in {1, 2}, usuario_id \in {1, 2} :
          service_desvincular_usuario_programa(usuario_id, programa_id)

SpecLink == InitLink /\ [][NextLink]_vars

\* The routes that depend on a get_session: the role routes and GET /hp.
NextSession ==
    \/ \E p \in SessionPayloads : create_role(p)
    \/ \E id \in Ids : get_role(id)
    \/ \E id \in Ids, p \in SessionPayloads : update_role(id, p)
    \/ \E id \in Ids, hard \in BOOLEAN : delete_role(id, hard)
    \/ health_plus

SpecSession == Init /\ [][NextSession]_vars

\* The update routes of roles and programs, fed with bodies that name an id
\* and an unknown key.
NextUpdate ==
    \/ \E p \in SessionPayloads : create_role(p)
    \/ \E id \in Ids, p \in RoleUpdateBodies : update_role(id, p)
    \/ \E p \in Payloads([instituicao_id : {1}, sigla : Names]) : create_programa(p)
    \/ \E id \in Ids, p \in ProgramaUpdateBodies : update_programa(id, p)

SpecUpdate == Init /\ [][NextUpdate]_vars

\* ------------------------------------------------------------- properties

\* C1: after any sequence of requests no two stored institutions share a
\* codigo or a sigla and no two roles share a nome; a create or update whose
\* unique field collides with another row is rejected and writes no row.
C1_UniqueFieldsStayUnique ==
    [][ /\ \A i, j \in DOMAIN roles' : i # j => roles'[i].nome # roles'[j].nome
        /\ \A i, j \in DOMAIN instituicoes' :
              i # j => /\ instituicoes'[i].codigo # instituicoes'[j].codigo
                       /\ instituicoes'[i].sigla # instituicoes'[j].sigla
        /\ ( /\ last'.op \in {"create_role", "update_role"}
             /\ "nome" \in DOMAIN last'.payload
             /\ \E i \in DOMAIN roles : i # last'.id /\ roles[i].nome = last'.payload["nome"] )
           => (resp'.status >= 400 /\ roles' = roles)
      ]_vars

\* C1 happens: an update that would give a role the nome of another stored
\* role has been answered 409.
C1_CollisionRejected ==
    /\ last.op = "update_role" /\ resp.status = 409
    /\ last.id \in DOMAIN roles
    /\ "nome" \in DOMAIN last.payload
    /\ \E i \in DOMAIN roles : i # last.id /\ roles[i].nome = last.payload["nome"]

\* C2: a POST /instituicoes whose codigo or sigla is already stored is
\* answered 409 (conflict) and leaves the stored rows unchanged.
C2_DuplicateInstituicaoIs409 ==
    [][ ( /\ last'.op = "create_instituicao"
          /\ InstituicaoCreateValid(last'.payload)
          /\ \E i \in DOMAIN instituicoes :
                \/ instituicoes[i].codigo = last'.payload["codigo"]
                \/ instituicoes[i].sigla = last'.payload["sigla"] )
        => (resp'.status = 409 /\ resp'.title = "Conflict" /\ instituicoes' = instituicoes)
      ]_vars

\* C3: when two concurrent requests create rows with the same, still free,
\* unique value and both have been answered, exactly one was answered 201
\* and the other 409.
C3_ExactlyOneWins ==
    \A s, t \in Slots :
        ( /\ s # t /\ Done(s) /\ Done(t)
          /\ conc[s].op = conc[t].op
          /\ conc[s].resp.status # 422 /\ conc[t].resp.status # 422
          /\ IF conc[s].op = "create_role"
             THEN conc[s].payload["nome"] = conc[t].payload["nome"]
             ELSE /\ \/ conc[s].payload["codigo"] = conc[t].payload["codigo"]
                     \/ conc[s].payload["sigla"] = conc[t].payload["sigla"]
                  /\ \A u \in {s, t} : \A i \in DOMAIN instituicoes :
                        /\ instituicoes[i].codigo # conc[u].payload["codigo"]
                        /\ instituicoes[i].sigla # conc[u].payload["sigla"] )
        => {conc[s].resp.status, conc[t].resp.status} = {201, 409}

\* C4 (as first stated): an accepted update of an existing role whose payload
\* holds the single field F with value v sets F to v, stamps atualizado_em,
\* and leaves the role's other fields and every other role unchanged.
C4_SingleFieldUpdateAlwaysStamps ==
    [][ ( /\ last'.op = "update_role" /\ last'.id \in DOMAIN roles
          /\ Cardinality(DOMAIN last'.payload) = 1
          /\ resp'.status = 200 )
        => LET id == last'.id
               p == last'.payload
           IN /\ DOMAIN roles' = DOMAIN roles
              /\ \A j \in DOMAIN roles \ {id} : roles'[j] = roles[j]
              /\ \A k \in DOMAIN roles[id] \ {"atualizado_em"} :
                    roles'[id][k] = IF k \in DOMAIN p THEN p[k] ELSE roles[id][k]
              /\ roles'[id].atualizado_em = now
      ]_vars

\* C4: an accepted update of an existing role sets each submitted field to
\* its submitted value, leaves every field absent from the payload and every
\* other role unchanged, and stamps atualizado_em exactly when some submitted
\* value differs from the stored one; a rejected update changes no row.
C4_UpdateSetsSubmittedFieldsOnly ==
    [][ (last'.op = "update_role" /\ last'.id \in DOMAIN roles)
        => LET id == last'.id
               p == last'.payload
           IN IF resp'.status = 200
              THEN /\ DOMAIN roles' = DOMAIN roles
                   /\ \A j \in DOMAIN roles \ {id} : roles'[j] = roles[j]
                   /\ \A k \in DOMAIN roles[id] \ {"atualizado_em"} :
                         roles'[id][k] = IF k \in DOMAIN p THEN p[k] ELSE roles[id][k]
                   /\ roles'[id].atualizado_em =
                         IF \E k \in DOMAIN p : p[k] # roles[id][k]
                         THEN now ELSE roles[id].atualizado_em
              ELSE roles' = roles
      ]_vars

\* C4 happens: an update carrying only descricao has been accepted and has
\* stamped the role in this request.
C4_SingleFieldUpdated ==
    /\ last.op = "update_role" /\ resp.status = 200
    /\ DOMAIN last.payload = {"descricao"}
    /\ last.id \in DOMAIN roles
    /\ roles[last.id].descricao = last.payload["descricao"]
    /\ roles[last.id].atualizado_em = now - 1

\* C5: in an update of an existing role, an explicit null for the nullable
\* descricao stores null, and an explicit null for the non-nullable nome or
\* ativo is answered 422 and leaves the role unchanged.
C5_NullOnNonNullableIs422 ==
    [][ (last'.op = "update_role" /\ last'.id \in DOMAIN roles)
        => LET id == last'.id
               p == last'.payload
           IN /\ (\E k \in {"nome", "ativo"} : k \in DOMAIN p /\ p[k] = NULL)
                 => (resp'.status = 422 /\ roles' = roles)
              /\ (DOMAIN p = {"descricao"} /\ p["descricao"] = NULL)
                 => (resp'.status = 200 /\ roles'[id].descricao = NULL)
      ]_vars

\* C6: a PUT or PATCH of a stored institution whose payload carries codigo
\* (and no other unique field) is accepted, and the stored codigo is the same
\* after it as before.
C6_CodigoInPayloadAccepted ==
    [][ ( /\ last'.op \in {"put_instituicao", "patch_instituicao"}
          /\ last'.id \in DOMAIN instituicoes
          /\ "codigo" \in DOMAIN last'.payload
          /\ "sigla" \notin DOMAIN last'.payload )
        => /\ resp'.status = 200
           /\ last'.id \in DOMAIN instituicoes'
           /\ instituicoes'[last'.id].codigo = instituicoes[last'.id].codigo
      ]_vars

\* C7 (as first stated): an update with no field submitted sends no write,
\* flush or commit to the store.
C7_EmptyUpdateSkipsStore ==
    (last.op = "update_role" /\ DOMAIN last.payload = {})
    => \A i \in 1..Len(calls) : calls[i] \notin {"add", "flush", "commit"}

\* C7: an update with no field submitted changes no row and no atualizado_em;
\* for a stored role it is answered 200 after the repository has loaded the
\* row and committed the (empty) transaction.
C7_EmptyUpdateChangesNothing ==
    [][ (last'.op = "update_role" /\ DOMAIN last'.payload = {})
        => /\ roles' = roles
           /\ last'.id \in DOMAIN roles
              => /\ resp'.status = 200
                 /\ \E i \in 1..Len(calls') : calls'[i] = "commit"
      ]_vars

\* C7 happens: an empty update of a role that carries a stamp has been
\* answered 200.
C7_EmptyUpdateAnswered ==
    /\ last.op = "update_role" /\ DOMAIN last.payload = {}
    /\ resp.status = 200
    /\ last.id \in DOMAIN roles
    /\ roles[last.id].atualizado_em # NullTs

\* C8 (as first stated): applying the same update payload a second time
\* leaves every stored field other than atualizado_em as the first
\* application left it.
C8_SecondApplyChangesNothing ==
    [][ (last'.op \in {"update_usuario", "update_role", "update_programa"} /\ last'.again)
        => /\ DOMAIN usuarios' = DOMAIN usuarios
           /\ \A i \in DOMAIN usuarios : \A k \in DOMAIN usuarios[i] \ {"atualizado_em"} :
                 usuarios'[i][k] = usuarios[i][k]
           /\ DOMAIN roles' = DOMAIN roles
           /\ \A i \in DOMAIN roles : \A k \in DOMAIN roles[i] \ {"atualizado_em"} :
                 roles'[i][k] = roles[i][k]
           /\ DOMAIN programas' = DOMAIN programas
           /\ \A i \in DOMAIN programas : \A k \in DOMAIN programas[i] \ {"updated_at"} :
                 programas'[i][k] = programas[i][k]
      ]_vars

\* C8: applying the same update payload a second time leaves every stored
\* field other than atualizado_em and senha_hash as the first application
\* left it; senha_hash is left as it was unless the payload carries senha,
\* and then the new hash is still a hash of the same senha.
C8_SecondApplyChangesOnlyTheHash ==
    [][ (last'.op \in {"update_usuario", "update_role", "update_programa"} /\ last'.again)
        => /\ DOMAIN usuarios' = DOMAIN usuarios
           /\ \A i \in DOMAIN usuarios :
                 /\ \A k \in DOMAIN usuarios[i] \ {"atualizado_em", "senha_hash"} :
                       usuarios'[i][k] = usuarios[i][k]
                 /\ usuarios'[i].senha_hash.senha = usuarios[i].senha_hash.senha
                 /\ (i # last'.id \/ "senha" \notin DOMAIN last'.payload)
                    => usuarios'[i].senha_hash = usuarios[i].senha_hash
           /\ DOMAIN roles' = DOMAIN roles
           /\ \A i \in DOMAIN roles : \A k \in DOMAIN roles[i] \ {"atualizado_em"} :
                 roles'[i][k] = roles[i][k]
           /\ DOMAIN programas' = DOMAIN programas
           /\ \A i \in DOMAIN programas : \A k \in DOMAIN programas[i] \ {"updated_at"} :
                 programas'[i][k] = programas[i][k]
      ]_vars

\* C8 happens: an update carrying senha and nome_completo has been applied to
\* a stored usuario for the second time in a row, and returned the usuario.
C8_AppliedTwice ==
    /\ last.op = "update_usuario" /\ last.again
    /\ {"senha", "nome_completo"} \subseteq DOMAIN last.payload
    /\ last.id \in DOMAIN usuarios
    /\ resp.type = "return" /\ resp.body # NoBody

\* C9: creating an institution with valid values V that collide with no
\* stored row is answered 201, and V is then what a read of the new row
\* finds stored.
C9_CreatedInstituicaoReadsBack ==
    [][ ( /\ last'.op = "create_instituicao"
          /\ InstituicaoCreateValid(last'.payload)
          /\ \A i \in DOMAIN instituicoes :
                /\ instituicoes[i].codigo # last'.payload["codigo"]
                /\ instituicoes[i].sigla # last'.payload["sigla"] )
        => /\ resp'.status = 201
           /\ \E i \in DOMAIN instituicoes' \ DOMAIN instituicoes :
                 \A k \in DOMAIN last'.payload : instituicoes'[i][k] = last'.payload[k]
      ]_vars

\* C10: a read, an update or a delete of a role id that has no stored row is
\* answered 404 and leaves the stored rows unchanged.
C10_MissingIdIs404 ==
    [][ ( /\ last'.op \in {"get_role", "update_role", "delete_role", "delete_role_hard"}
          /\ last'.id \notin DOMAIN roles )
        => (resp'.status = 404 /\ roles' = roles)
      ]_vars

\* C11: a PUT on a stored role whose payload omits nome, which the full
\* schema of a role requires, is answered 422 and leaves the stored rows
\* unchanged.
C11_PutMissingRequiredIs422 ==
    [][ ( /\ last'.op = "update_role"
          /\ last'.id \in DOMAIN roles
          /\ "nome" \notin DOMAIN last'.payload )
        => (resp'.status = 422 /\ roles' = roles)
      ]_vars

\* C12: a PUT on a stored institution whose payload holds only some of its
\* fields is answered 200, sets each submitted field to the submitted value
\* and keeps every field that was not submitted.
C12_PutSubsetIs200 ==
    [][ ( /\ last'.op = "put_instituicao"
          /\ last'.id \in DOMAIN instituicoes
          /\ DOMAIN last'.payload # {}
          /\ DOMAIN last'.payload # {"codigo", "sigla", "nome_abreviado"}
          /\ \A i \in DOMAIN instituicoes \ {last'.id} :
                \A k \in DOMAIN last'.payload \cap {"codigo", "sigla"} :
                   instituicoes[i][k] # last'.payload[k] )
        => /\ resp'.status = 200
           /\ last'.id \in DOMAIN instituicoes'
           /\ \A k \in DOMAIN last'.payload :
                 instituicoes'[last'.id][k] = last'.payload[k]
           /\ \A k \in {"codigo", "sigla", "nome_abreviado"} \ DOMAIN last'.payload :
                 instituicoes'[last'.id][k] = instituicoes[last'.id][k]
      ]_vars

\* C13: a request answered 2xx leaves its whole changeset stored (a created
\* row is there with the submitted values, an updated row has the submitted
\* values, a deleted row is gone), and a request answered with a problem
\* payload leaves every stored row as it was.
C13_AnswerMatchesStore ==
    [][ /\ resp'.status \notin 200..299
           => (roles' = roles /\ instituicoes' = instituicoes /\ programas' = programas)
        /\ (resp'.status \in 200..299 /\ last'.op \in {"create_role", "update_role"})
           => /\ resp'.body.id \in DOMAIN roles'
              /\ \A k \in DOMAIN last'.payload : roles'[resp'.body.id][k] = last'.payload[k]
        /\ (resp'.status \in 200..299 /\ last'.op = "delete_role_hard")
           => last'.id \notin DOMAIN roles'
        /\ (resp'.status \in 200..299 /\ last'.op = "delete_instituicao")
           => last'.id \notin DOMAIN instituicoes'
      ]_vars

C16_InstituicaoConflictPayload ==
    [][ ( /\ last'.op \in {"create_instituicao", "put_instituicao", "patch_instituicao"}
          /\ raised'.exc.class = "IntegrityError" )
        => /\ resp'.status = 409
           /\ resp'.body.status = 409
           /\ resp'.body.type = "urn:ppghub:errors:conflict"
           /\ "title" \in DOMAIN resp'.body
           /\ "errors" \in DOMAIN resp'.body
           /\ resp'.body.meta.method = raised'.request.method
      ]_vars

\* C17: the conflict response built from a store error has status 409 and
\* carries, out of the engine message, nothing but errors.hint: the field
\* and the value of a "Key (field)=(value) already exists" found in the
\* message, and no hint when the message holds no such text; its own detail
\* is the handler's fixed text.
C17_HintOnlyFromDuplicateKey ==
    [][ (raised'.exc.class = "IntegrityError" /\ resp'.type = "urn:ppghub:errors:conflict")
        => LET msg == raised'.exc.orig.msg
               body == resp'.body
               found == {i \in 1..Len(msg) :
                            /\ i + 4 <= Len(msg)
                            /\ msg[i] = "Key (" /\ msg[i + 2] = ")=("
                            /\ msg[i + 4] = ") already exists"}
           IN /\ resp'.status = 409
              /\ DOMAIN body = {"type", "title", "status", "detail", "instance", "errors", "meta"}
              /\ \A k \in {"type", "title", "detail", "instance"} :
                    \A i \in 1..Len(msg) : body[k] # msg[i]
              /\ DOMAIN body.meta = {"method"}
              /\ DOMAIN body.errors = {"db_code", "hint"}
              /\ body.errors.db_code = raised'.exc.orig.pgcode
              /\ found = {} => body.errors.hint = NoDict
              /\ body.errors.hint # NoDict
                 => \E i \in found : /\ body.errors.hint.field = msg[i + 1]
                                     /\ body.errors.hint.value = msg[i + 3]
      ]_vars

\* C17 happens: a foreign-key message, which holds no duplicate key, has been
\* answered 409 without a hint, and so has been a duplicate-key message with
\* a hint (one state for each, told apart by the code of the error).
C17_AnsweredWithoutHint ==
    /\ raised.exc.class = "IntegrityError"
    /\ raised.exc.orig.pgcode = "23503"
    /\ resp.type = "urn:ppghub:errors:conflict" /\ resp.status = 409
    /\ resp.body.errors.hint = NoDict

\* C18: a create or an update of an institution sends no query for a row
\* holding the submitted codigo or sigla before it writes.
C18_NoLookupBeforeWrite ==
    [][ last'.op \in {"InstituicaoService.create", "InstituicaoService.update"}
        => \A i \in 1..Len(calls') : calls'[i] # "scalar"
      ]_vars

C20_OneItemPerOffendingField ==
    [][ raised'.exc.class = "RequestValidationError"
        => LET items == resp'.body.errors.items
               p == last'.payload
               schema == BodySchema(last'.op)
               offending == {n \in {schema[j].name : j \in 1..Len(schema)} :
                                IF n \in DOMAIN p THEN p[n] = NULL
                                ELSE \E j \in 1..Len(schema) :
                                        schema[j].name = n /\ schema[j].required}
           IN /\ resp'.status = 422
              /\ resp'.type = "urn:ppghub:errors:validation"
              /\ Len(items) = Cardinality(offending)
              /\ \A n \in offending : \E i \in 1..Len(items) : items[i].loc = <<"body", n>>
              /\ \A i \in 1..Len(items) : DOMAIN items[i] = {"loc", "msg", "type"}
      ]_vars

\* C20 happens: a body that offends three fields at once has been answered.
C20_SeveralFieldsRejected ==
    /\ raised.exc.class = "RequestValidationError"
    /\ Len(raised.exc.errors) = 3
    /\ resp.status = 422

\* C21: an exception that leaves a route and is neither an HTTPException, a
\* validation error nor an IntegrityError is answered 500 with the internal
\* category; the detail is the fixed generic text when the debug flag is
\* off and the exception's own text when it is on.
C21_UnhandledIs500 ==
    [][ ( /\ raised' # raised
          /\ raised'.exc.class \notin {"HTTPException", "RequestValidationError",
                                       "IntegrityError"}
          /\ \A r \in Routes : r.op = last'.op => r.catch # raised'.exc.class )
        => /\ resp'.status = 500
           /\ resp'.type = "urn:ppghub:errors:internal"
           /\ ~DEBUG => resp'.body.detail = "Ocorreu um erro interno no servidor."
           /\ DEBUG => resp'.body.detail = raised'.exc.text
      ]_vars

\* C21 happens: with the debug flag off, an AttributeError has been answered.
C21_AnsweredWithFlagOff ==
    /\ ~DEBUG
    /\ raised.exc.class = "AttributeError"
    /\ resp.status = 500 /\ "detail" \in DOMAIN resp.body

\* C22: after any sequence of create, update and delete requests every
\* program's instituicao_id is the id of an institution and every docente's
\* programa_id is the id of a program; a create or update whose payload
\* refers to a row that does not exist is answered with an error and leaves
\* the table as it was.
C22_ReferencesExist ==
    /\ \A i \in DOMAIN programas : programas[i].instituicao_id \in DOMAIN instituicoes
    /\ \A i \in DOMAIN docentes : docentes[i].programa_id \in DOMAIN programas
    /\ [][ /\ \A i \in DOMAIN programas' : programas'[i].instituicao_id \in DOMAIN instituicoes'
           /\ \A i \in DOMAIN docentes' : docentes'[i].programa_id \in DOMAIN programas'
           /\ ( /\ last'.op \in {"create_programa", "update_programa"}
                /\ "instituicao_id" \in DOMAIN last'.payload
                /\ last'.payload["instituicao_id"] \notin DOMAIN instituicoes )
              => (resp'.status >= 400 /\ programas' = programas)
           /\ ( /\ last'.op = "create_docente"
                /\ "programa_id" \in DOMAIN last'.payload
                /\ last'.payload["programa_id"] \notin DOMAIN programas )
              => (resp'.status >= 400 /\ docentes' = docentes) ]_vars
\* A well-formed docente of an existing user and a missing program was refused
\* while another docente is stored.
C22_OrphanDocenteRefused ==
    /\ last.op = "create_docente" /\ DocenteCreateValid(last.payload)
    /\ last.payload["usuario_id"] \in DOMAIN usuarios
    /\ last.payload["programa_id"] \notin DOMAIN programas
    /\ resp.status = 409
    /\ docentes # << >>

\* C26: creating a docente for a (usuario_id, programa_id) pair that already
\* has a docente is answered 409 and adds no row; after any sequence of
\* requests no two docentes share their (usuario_id, programa_id) pair.
C26_OneDocentePerPair ==
    [][ /\ ( /\ last'.op = "create_docente" /\ DocenteCreateValid(last'.payload)
             /\ \E i \in DOMAIN docentes :
                   /\ docentes[i].usuario_id = last'.payload["usuario_id"]
                   /\ docentes[i].programa_id = last'.payload["programa_id"] )
           => (resp'.status = 409 /\ docentes' = docentes)
        /\ \A i, j \in DOMAIN docentes' :
              ( /\ docentes'[i].usuario_id = docentes'[j].usuario_id
                /\ docentes'[i].programa_id = docentes'[j].programa_id ) => i = j ]_vars
\* The second create for a stored pair was answered 409.
C26_SecondCreateRefused ==
    /\ last.op = "create_docente" /\ DocenteCreateValid(last.payload)
    /\ resp.status = 409
    /\ \E i \in DOMAIN docentes :
          /\ docentes[i].usuario_id = last.payload["usuario_id"]
          /\ docentes[i].programa_id = last.payload["programa_id"]

\* C23: DELETE of a stored program with hard=False keeps the program's row
\* and marks it inactive; only hard=True removes the row.
C23_SoftDeleteKeepsRow ==
    [][ ( /\ last'.op = "delete_programa"
          /\ last'.id \in DOMAIN programas
          /\ resp'.status = 204 )
        => ( /\ last'.id \in DOMAIN programas'
             /\ programas'[last'.id].status = "Inativo" ) ]_vars

C25_PageEchoesLimit ==
    [][ ( /\ last'.op \in {"list_roles", "list_programas", "list_instituicoes"}
          /\ PageValid(last'.payload.limit, last'.payload.offset) )
        => /\ resp'.status = 200
           /\ Len(resp'.body.items) <= last'.payload.limit
           /\ resp'.body.total =
                 CASE last'.op = "list_roles" ->
                        Cardinality(RoleListed(last'.payload.search, last'.payload.ativo))
                   [] last'.op = "list_programas" -> Cardinality(DOMAIN programas)
                   [] OTHER -> Cardinality(DOMAIN instituicoes)
           /\ "limit" \in DOMAIN resp'.body
           /\ resp'.body.limit = last'.payload.limit
      ]_vars

\* C27: when unlinking user U from program P is answered with success, no
\* Ativo link of U to P remains, and each link that was Ativo is kept with
\* status Desligado and its data_desvinculacao set; when U has no Ativo link
\* to P the answer is 404 (False from the service) and no link changes.
C27_UnlinkEndsEveryLink ==
    [][ (last'.op \in {"desvincular_usuario_programa", "service_desvincular_usuario_programa"})
        => LET U == last'.payload.usuario_id
               P == last'.payload.programa_id
               success == IF last'.op = "desvincular_usuario_programa"
                          THEN resp'.status = 200
                          ELSE resp'.type = "return" /\ resp'.body.ok
               notfound == IF last'.op = "desvincular_usuario_programa"
                           THEN resp'.status = 404
                           ELSE resp'.type = "return" /\ ~resp'.body.ok
           IN IF LinksAtivos(U, P) # {}
              THEN /\ success
                   /\ \A i \in DOMAIN vinculos' :
                         ~( /\ vinculos'[i].usuario_id = U /\ vinculos'[i].programa_id = P
                            /\ vinculos'[i].status = "Ativo" )
                   /\ \A i \in LinksAtivos(U, P) :
                         /\ i \in DOMAIN vinculos'
                         /\ vinculos'[i].status = "Desligado"
                         /\ vinculos'[i].data_desvinculacao # NullTs
              ELSE notfound /\ vinculos' = vinculos
      ]_vars

\* C28: every error response built by one of the four handlers carries in
\* its body the status it is sent under, the url of the request as instance
\* and the method of the request as meta.method, also when the handler
\* gives a meta of its own.
C28_ProblemEchoesRequest ==
    raised.exc.class # "none"
    => /\ resp.status >= 400
       /\ resp.body.status = resp.status
       /\ resp.body.instance = raised.request.url
       /\ "method" \in DOMAIN resp.body.meta
       /\ resp.body.meta.method = raised.request.method
\* An unhandled exception of a DELETE was answered with the handler's
\* request_id beside the method.
C28_InternalErrorKeepsMethod ==
    /\ raised.exc.class = "TypeError" /\ raised.request.method = "DELETE"
    /\ resp.status = 500
    /\ DOMAIN resp.body.meta = {"method", "request_id"}
    /\ resp.body.meta.request_id = "rid"

\* C29 (as first stated): in every request whose route depends on a
\* get_session, the session is committed last when the handler returned,
\* rolled back last when it raised, closed at the end either way, and no
\* commit follows a rollback.
C29_EveryGetSessionCommits ==
    (last.op # "none" /\ resp.status # 422)
    => LET n == Len(calls)
       IN /\ n >= 2 /\ calls[n] = "close"
          /\ resp.status < 400 => calls[n - 1] = "commit"
          /\ resp.status >= 400 => calls[n - 1] = "rollback"
          /\ (\E i \in 1..n : calls[i] = "rollback") <=> resp.status >= 400
          /\ \A i, j \in 1..n : (calls[i] = "rollback" /\ i < j) => calls[j] # "commit"

\* C29: in a request of a route that depends on the get_session of
\* app/db/session.py the session is committed last when the handler
\* returned, rolled back last when it raised, closed at the end either way,
\* and no commit follows a rollback; the session GET /hp obtains through the
\* get_session of app/deps.py is closed only.
C29_SessionEndsByOutcome ==
    (last.op # "none" /\ resp.status # 422)
    => LET n == Len(calls)
       IN /\ n >= 1 /\ calls[n] = "close"
          /\ \A i, j \in 1..n : (calls[i] = "rollback" /\ i < j) => calls[j] # "commit"
          /\ IF last.op = "health_plus"
             THEN \A i \in 1..n : calls[i] \notin {"commit", "rollback"}
             ELSE /\ n >= 2
                  /\ resp.status < 400 => calls[n - 1] = "commit"
                  /\ resp.status >= 400 => calls[n - 1] = "rollback"
                  /\ (\E i \in 1..n : calls[i] = "rollback") <=> resp.status >= 400
\* A role update whose own commit failed was rolled back and closed.
C29_FailedCommitRolledBack ==
    /\ last.op = "update_role" /\ resp.status = 409
    /\ calls = <<"execute", "commit", "rollback", "close">>

\* C30: no update request changes the id of a stored role or program or
\* adds an attribute to it, and a key of the body that names no attribute of
\* the entity is ignored without error: the request is answered, and changes
\* the table, as the same request without its id and unknown keys.
C30_UpdateKeepsIdAndShape ==
    [][ (last'.op \in {"update_role", "update_programa"})
        => LET id == last'.id
               p == last'.payload
               known == [k \in DOMAIN p \ {"id", "foo"} |-> p[k]]
           IN /\ DOMAIN roles' = DOMAIN roles
              /\ \A i \in DOMAIN roles :
                    roles'[i].id = i /\ DOMAIN roles'[i] = DOMAIN roles[i]
              /\ DOMAIN programas' = DOMAIN programas
              /\ \A i \in DOMAIN programas :
                    programas'[i].id = i /\ DOMAIN programas'[i] = DOMAIN programas[i]
              /\ (last'.op = "update_role" /\ id \in DOMAIN roles)
                 => /\ roles' = RoleRepository_update(id, known).tbl
                    /\ resp'.status = 200 <=> RoleRepository_update(id, known).exc = "none"
                    /\ DOMAIN known = {} => resp'.status = 200
              /\ (last'.op = "update_programa" /\ id \in DOMAIN programas)
                 => /\ programas' = ProgramaRepository_update(id, known).tbl
                    /\ resp'.status = 200 <=> ProgramaRepository_update(id, known).exc = "none"
                    /\ DOMAIN known = {} => resp'.status = 200
      ]_vars
\* A role was renamed by a body that also named another id and an unknown key.
C30_RenamedDespiteIdInBody ==
    /\ last.op = "update_role" /\ resp.status = 200
    /\ DOMAIN last.payload = {"nome", "id", "foo"}
    /\ last.id \in DOMAIN roles /\ last.payload["id"] # last.id
    /\ roles[last.id].id = last.id
    /\ roles[last.id].nome = last.payload["nome"]
    /\ roles[last.id].atualizado_em # NullTs
====
